---- MODULE Spec2Model ----
(***************************************************************************)
(* A model of pinger (tomc603/pinger): the per-Destination Scheduler       *)
(* (Destination.Start / Destination.Stop), the Reconciler                  *)
(* (watchDestinations over GetDestinations), the part of main that starts  *)
(* and stops the Destinations and raises the stop signal, and the Result   *)
(* Writer (resultWriter over BatchResultWriter and Result.Commit).         *)
(*                                                                         *)
(* Spec and FairSpec are the program; ApiSpec adds further calls of Start  *)
(* and Stop; ReconSpec is the Reconciler alone over Registries at every    *)
(* lifecycle position; WriterSpec is the Result Writer alone.              *)
(* ShutdownSpec and FairShutdownSpec add the Sender (ping), the Receivers  *)
(* (v4Listener, v6Listener) and main's shutdown procedure up to its        *)
(* return; ReceiverSpec is the Receivers on any packet; CodecSpec is the   *)
(* Body and Magic codec alone; FetchSpec is GetDestinations alone.         *)
(* CommitSpec is Destination.Commit alone; SenderSpec is the loop of ping  *)
(* over the dispatch events of a Registry; EchoSpec adds the replies of    *)
(* the probed hosts and the Receivers; CycleSpec is the program with a     *)
(* caller that stops a running Destination and starts it again; RaceSpec   *)
(* is the Sender and the Reconciler on one Destination, one access to a    *)
(* field at a time.                                                        *)
(*                                                                         *)
(* Memory is modelled sequentially consistent.  The unsynchronised fields  *)
(* of a Destination are read and written by several goroutines in the      *)
(* source; every violation reported below already occurs under sequential  *)
(* consistency.                                                            *)
(***************************************************************************)
EXTENDS Integers, Sequences, FiniteSets, TLC

\* ------------------------------------------------------------------ bounds
\* Destination objects that are ever kept (initial load plus appended ones).
MaxObjs == 3
\* Calls of Start, beyond those of main, that launch a Scheduler goroutine.
MaxStarts == 1
\* Poll ticks of the Reconciler.
MaxTicks == 1
\* Dispatch events the Sender handles.
MaxSends == 2
\* Capacity of the dispatch channel namech (100 in main.go:82).
NameChCap == 1
\* Results the Receivers emit.
MaxResults == 6
\* Largest configured ResultBatchSize (0 disables batching).
MaxBatchSize == 2
\* Capacity of the result channel resultch (100 in main.go:83).
ResultChCap == 2
\* Packets the Receivers read.
MaxReads == 1
\* Longest byte slice handed to the decoders.
MaxBufLen == 18

\* ------------------------------------------------------- program constants
MaxPayloadSize == 32
MaxProbeTTL == 30
MinProbeInterval == 200
MinProbeTTL == 3
ProtoUDP4 == 1
ProtoUDP6 == 2

\* ------------------------------------------------------------ the database
\* Primary keys of the destinations table that the model uses.
Ids == {1, 2, 3}

NoRow == [Absent |-> TRUE]

Payload(n, b) == [i \in 1..n |-> b]

\* Rows of the destinations table as they may be stored (not yet validated).
RowA == [Active |-> TRUE, Address |-> "a.example", Protocol |-> ProtoUDP4,
         Interval |-> 500, Timeout |-> 1000, TTL |-> 10, Data |-> <<7>>]
\* Differs from RowA in Interval and Data only.
RowC == [Active |-> TRUE, Address |-> "a.example", Protocol |-> ProtoUDP4,
         Interval |-> 1000, Timeout |-> 1000, TTL |-> 10, Data |-> <<8>>]
\* Differs from RowA in every field; interval, TTL and payload out of bounds.
RowB == [Active |-> TRUE, Address |-> "b.example", Protocol |-> ProtoUDP6,
         Interval |-> 100, Timeout |-> 250, TTL |-> 40,
         Data |-> Payload(MaxPayloadSize + 1, 9)]
RowInactive == [Active |-> FALSE, Address |-> "a.example", Protocol |-> ProtoUDP4,
                Interval |-> 500, Timeout |-> 1000, TTL |-> 10, Data |-> <<7>>]
RowNoAddress == [Active |-> TRUE, Address |-> "", Protocol |-> ProtoUDP4,
                 Interval |-> 500, Timeout |-> 1000, TTL |-> 10, Data |-> <<7>>]
RowBadProto == [Active |-> TRUE, Address |-> "a.example", Protocol |-> 3,
                Interval |-> 500, Timeout |-> 1000, TTL |-> 10, Data |-> <<7>>]

\* Contents of the destinations table that the model draws from: a row or none
\* per primary key.  Key 1 takes every row, the other keys the plain one.
DbTables ==
    {tbl \in [Ids -> {RowA, RowB, RowC, RowInactive, RowBadProto, NoRow}] :
        \A id \in Ids \ {1} : tbl[id] \in {RowA, NoRow}}

\* The order in which the SELECT returns the rows: by the integer primary key
\* (SQLite scans the table in rowid order).
IdOrder == [i \in 1..Cardinality(Ids) |-> i]

RECURSIVE Query(_, _, _)
\* The rows the SELECT of GetDestinations returns, with their id column.
Query(tbl, ord, i) ==
    IF i > Len(ord) THEN <<>>
    ELSE IF tbl[ord[i]] = NoRow THEN Query(tbl, ord, i + 1)
    ELSE <<[Id |-> ord[i], Active |-> tbl[ord[i]].Active,
            Address |-> tbl[ord[i]].Address, Protocol |-> tbl[ord[i]].Protocol,
            Interval |-> tbl[ord[i]].Interval, Timeout |-> tbl[ord[i]].Timeout,
            TTL |-> tbl[ord[i]].TTL, Data |-> tbl[ord[i]].Data]>>
         \o Query(tbl, ord, i + 1)

\* rows.Scan into the fields of a Destination succeeds: the protocol and the
\* TTL fit a uint8, the timeout a uint16, and the interval is not negative.
ScanOk(row) ==
    /\ row.Protocol \in 0..255
    /\ row.TTL \in 0..255
    /\ row.Timeout \in 0..65535
    /\ row.Interval >= 0

ClampTTLBelow(d) ==
    LET d1 == IF d.Interval < MinProbeInterval
              THEN [d EXCEPT !.Interval = MinProbeInterval] ELSE d
        d2 == IF d1.TTL < MinProbeTTL THEN [d1 EXCEPT !.TTL = MinProbeTTL] ELSE d1
        d3 == IF Len(d2.Data) > MaxPayloadSize
              THEN [d2 EXCEPT !.Data = SubSeq(d2.Data, 1, MaxPayloadSize)] ELSE d2
    IN d3

\* Data validation of one scanned row (GetDestinations, the clamps).
Clamp(d) ==
    LET d1 == IF d.Interval < MinProbeInterval
              THEN [d EXCEPT !.Interval = MinProbeInterval] ELSE d
        d2 == IF d1.TTL < MinProbeTTL THEN [d1 EXCEPT !.TTL = MinProbeTTL]
              ELSE IF d1.TTL > MaxProbeTTL THEN [d1 EXCEPT !.TTL = MaxProbeTTL]
              ELSE d1
        d3 == IF Len(d2.Data) > MaxPayloadSize
              THEN [d2 EXCEPT !.Data = SubSeq(d2.Data, 1, MaxPayloadSize)] ELSE d2
    IN d3

RECURSIVE ScanRows(_, _)
\* The loop of GetDestinations over the returned rows.
ScanRows(rows, i) ==
    IF i > Len(rows) THEN <<>>
    ELSE IF ~rows[i].Active THEN ScanRows(rows, i + 1)
    ELSE IF rows[i].Protocol < ProtoUDP4 \/ rows[i].Protocol > ProtoUDP6
         THEN ScanRows(rows, i + 1)
    ELSE <<Clamp(rows[i])>> \o ScanRows(rows, i + 1)

\* GetDestinations: the validated Destinations, or nil (the empty list) when
\* the query, a scan or the row iteration fails.
GetDestinations(tbl, ord, ok) ==
    LET rows == Query(tbl, ord, 1)
    IN IF ok /\ \A i \in 1..Len(rows) : ScanOk(rows[i]) THEN ScanRows(rows, 1) ELSE <<>>

\* What a call of GetDestinations may yield, over every table content, row order
\* and failure: whether it succeeded, and the list it returned.
FetchOutcomes ==
    {[ok |-> ok, list |-> GetDestinations(tbl, IdOrder, ok)] :
        tbl \in DbTables, ok \in BOOLEAN}

\* ------------------------------------------------------------------- state
VARIABLES
    dest,            \* heap of Destination objects, indexed by reference
    tickers,         \* heap of time.Ticker objects, indexed by reference
    gor,             \* Scheduler goroutines launched by Start
    registry,        \* watchDestinations' slice `destinations` (references)
    backing,         \* backing array of main's slice `destinations`
    regShared,       \* the Reconciler's slice still uses main's backing array
    regCap,          \* capacity of the Reconciler's slice
    mainLen,         \* length of main's slice
    namech,          \* the dispatch channel
    stopch,          \* "open" or "closed": the stop signal
    mainPc,          \* position of main
    mainIdx,         \* index of main's loop that starts the Destinations
    watcherPc,       \* position of watchDestinations
    ticksLeft,       \* poll ticks the model still lets the Reconciler consume
    startsLeft,      \* goroutine launches the model still lets Start make
    newDestinations, \* result of the last fetch of watchDestinations
    fetchOk,         \* whether the last fetch succeeded
    lastPass,        \* what the last pass removed, updated and appended
    resultch,        \* the result channel
    resultchClosed,  \* close(resultch) has happened
    emitted,         \* Results the Receivers have put on resultch
    writerPc,        \* position of resultWriter
    ResultBatchSize, \* the configured batch size (0: no batching)
    perIteration,    \* the build gives `result` one variable per loop iteration
    received,        \* Results resultWriter took from resultch, in order
    resultBuf,       \* resultWriter's resultBuf: pointers, as arrival indexes
    persisted,       \* rows of the results table, in insertion order
    commitLog,       \* every call of BatchResultWriter and Result.Commit
    dbBatchCommits,
    dbFailedBatchCommits,
    dbSingleCommits,
    dbFailedSingleCommits

heapVars == <<dest, tickers, gor, registry, backing, regShared, regCap>>

ctlVars == <<mainLen, namech, stopch, mainPc, mainIdx, watcherPc, ticksLeft, startsLeft,
             newDestinations, fetchOk, lastPass>>

writerVars == <<resultch, resultchClosed, emitted, writerPc, ResultBatchSize, perIteration,
                received, resultBuf, persisted, commitLog, dbBatchCommits,
                dbFailedBatchCommits, dbSingleCommits, dbFailedSingleCommits>>

VARIABLES
    namechClosed,    \* close(namech) has happened
    pingPc,          \* position of ping, the Sender
    rcvPc,           \* position of each Receiver (v4Listener, v6Listener)
    rcvPacket,       \* the packet each Receiver read last
    rcvResult,       \* the Result a Receiver is about to put on resultch
    readsLeft,       \* packets the model still lets the Receivers read
    network,         \* the packets that may arrive on the Receivers' sockets
    results,         \* the Results put on resultch, in order
    parseFailed,     \* the counters v4ParseFailed and v6ParseFailed
    codecBody,       \* a Body handed to Body.Encode
    codecBuf,        \* a byte slice handed to Body.Decode, Magic.Decode, ValidateMagic
    codecOut,        \* what the last call on codecBuf returned
    codecPc,         \* which call was made last
    dbTable          \* the destinations table a call of GetDestinations reads

taskVars == <<namechClosed, pingPc, rcvPc, rcvPacket, rcvResult, readsLeft, network,
              results, parseFailed>>

codecVars == <<codecBody, codecBuf, codecOut, codecPc>>

VARIABLES
    commitRes,       \* what the last call of Destination.Commit returned
    seq,             \* ping's sequence number
    metrics,         \* the Sender's counters (sender metrics)
    written,         \* the echo requests written to the sockets, in order
    lastEvent,       \* the dispatch event ping handled last, and what befell it
    sendsLeft,       \* dispatch events the model still lets the Sender handle
    cyclePc,         \* position of a caller that stops and restarts a Destination
    cycleDest,       \* the Destination that caller works on
    probe,           \* ping inside an iteration: what it has read of its Destination
    update           \* watchDestinations inside the update of a found Destination

senderVars == <<seq, metrics, written, lastEvent, sendsLeft>>

raceVars == <<probe, update>>

\* ping is between two iterations of its loop.
NoProbe == [pc |-> "idle"]

\* watchDestinations is not inside the update of a found Destination.
NoUpdate == [pc |-> 0]

extVars == <<commitRes, senderVars, cyclePc, cycleDest, raceVars>>

auxVars == <<taskVars, codecVars, dbTable, extVars>>

vars == <<heapVars, ctlVars, writerVars, auxVars>>

Range(s) == {s[i] : i \in DOMAIN s}

\* A fresh Destination object for a scanned record (Destination{stopFlag: false}).
NewDestination(rec) ==
    [Id |-> rec.Id, Address |-> rec.Address, Interval |-> rec.Interval,
     Timeout |-> rec.Timeout, Protocol |-> rec.Protocol, TTL |-> rec.TTL,
     Active |-> rec.Active, Data |-> rec.Data,
     running |-> FALSE, stopFlag |-> FALSE, ticker |-> 0]

\* The database fields of a Destination object.
Fields(o) ==
    [Id |-> o.Id, Active |-> o.Active, Address |-> o.Address, Protocol |-> o.Protocol,
     Interval |-> o.Interval, Timeout |-> o.Timeout, TTL |-> o.TTL, Data |-> o.Data]

\* Capacity after append grows a full slice of capacity c by one element.
GrowCap(c) == IF c = 0 THEN 1 ELSE c + c

RECURSIVE CapFor(_, _)
\* Capacity of a slice built by n appends, starting from a nil slice.
CapFor(n, c) == IF n <= c THEN c ELSE CapFor(n, GrowCap(c))

\* The heap and the slices as one value.
Heap ==
    [dest |-> dest, tickers |-> tickers, gor |-> gor, reg |-> registry,
     backing |-> backing, shared |-> regShared, cap |-> regCap]

SetHeap(h) ==
    /\ dest' = h.dest
    /\ tickers' = h.tickers
    /\ gor' = h.gor
    /\ registry' = h.reg
    /\ backing' = h.backing
    /\ regShared' = h.shared
    /\ regCap' = h.cap

\* ------------------------------------------------------------ the Scheduler
\* Destination.Stop on object d.
StopOp(h, d) ==
    IF h.dest[d].running
    THEN [h EXCEPT !.tickers[h.dest[d].ticker].stopped = TRUE,
                   !.dest[d].stopFlag = TRUE]
    ELSE h

\* Destination.Start on object d past the running check: the stop flag is
\* cleared, a new ticker replaces dest.ticker and the goroutine is launched.
StartOp(h, d) ==
    [h EXCEPT !.tickers = Append(h.tickers, [dest |-> d, interval |-> h.dest[d].Interval,
                                               stopped |-> FALSE, pending |-> FALSE]),
              !.dest[d].stopFlag = FALSE,
              !.dest[d].ticker = Len(h.tickers) + 1,
              !.gor = Append(h.gor, [dest |-> d, pc |-> "go"])]

\* The goroutine of Start begins: dest.running = true.
BeginOp(h, g) ==
    [h EXCEPT !.dest[h.gor[g].dest].running = TRUE, !.gor[g].pc = "loop"]

\* if dest.stopFlag { break }
CheckOp(h, g) ==
    [h EXCEPT !.gor[g].pc = IF h.dest[h.gor[g].dest].stopFlag THEN "exit" ELSE "select"]

\* case <-stopch: dest.stopFlag = true
StopSignalOp(h, g) ==
    [h EXCEPT !.dest[h.gor[g].dest].stopFlag = TRUE, !.gor[g].pc = "loop"]

\* case <-dest.ticker.C: a tick is taken from the channel of the current ticker.
TakeTickOp(h, g) ==
    [h EXCEPT !.tickers[h.dest[h.gor[g].dest].ticker].pending = FALSE,
              !.gor[g].pc = "send"]

\* dest.ticker.Stop(); dest.running = false; the goroutine returns.
ExitOp(h, g) ==
    [h EXCEPT !.tickers[h.dest[h.gor[g].dest].ticker].stopped = TRUE,
              !.dest[h.gor[g].dest].running = FALSE,
              !.gor[g].pc = "done"]

\* Destination.Start called once more on a Destination of the Registry.
Start(d) ==
    /\ mainPc = "run"
    /\ d \in Range(registry)
    /\ IF dest[d].running
       THEN UNCHANGED <<heapVars, startsLeft>>
       ELSE /\ startsLeft > 0
            /\ startsLeft' = startsLeft - 1
            /\ SetHeap(StartOp(Heap, d))
    /\ UNCHANGED <<mainLen, namech, stopch, mainPc, mainIdx, watcherPc, ticksLeft,
                   newDestinations, fetchOk, lastPass, writerVars, auxVars>>

\* Destination.Stop called on a Destination of the Registry.
Stop(d) ==
    /\ mainPc = "run"
    /\ d \in Range(registry)
    /\ SetHeap(StopOp(Heap, d))
    /\ UNCHANGED <<ctlVars, writerVars, auxVars>>

\* The runtime delivers a tick of a ticker that is not stopped; a tick that finds
\* the ticker's channel (capacity 1) full is dropped.
TickerFire(t) ==
    /\ t \in 1..Len(tickers)
    /\ ~tickers[t].stopped
    /\ ~tickers[t].pending
    /\ tickers' = [tickers EXCEPT ![t].pending = TRUE]
    /\ UNCHANGED <<dest, gor, registry, backing, regShared, regCap, ctlVars, writerVars, auxVars>>

SchedBegin(g) ==
    /\ gor[g].pc = "go"
    /\ SetHeap(BeginOp(Heap, g))

SchedCheck(g) ==
    /\ gor[g].pc = "loop"
    /\ SetHeap(CheckOp(Heap, g))

SchedStopSignal(g) ==
    /\ gor[g].pc = "select"
    /\ stopch = "closed"
    /\ SetHeap(StopSignalOp(Heap, g))

SchedTick(g) ==
    /\ gor[g].pc = "select"
    /\ tickers[dest[gor[g].dest].ticker].pending
    /\ SetHeap(TakeTickOp(Heap, g))

SchedExit(g) ==
    /\ gor[g].pc = "exit"
    /\ SetHeap(ExitOp(Heap, g))

\* The steps of a Scheduler goroutine that leave the dispatch channel alone.
SchedStep(g) ==
    /\ g \in 1..Len(gor)
    /\ \/ SchedBegin(g)
       \/ SchedCheck(g)
       \/ SchedStopSignal(g)
       \/ SchedTick(g)
       \/ SchedExit(g)
    /\ UNCHANGED <<ctlVars, writerVars, auxVars>>

SchedSendDrop(g) ==
    /\ g \in 1..Len(gor)
    /\ gor[g].pc = "send"
    /\ ~namechClosed
    /\ namech' = IF Len(namech) < NameChCap THEN Append(namech, gor[g].dest) ELSE namech
    /\ gor' = [gor EXCEPT ![g].pc = "loop"]
    /\ UNCHANGED <<dest, tickers, registry, backing, regShared, regCap, mainLen, stopch,
                   mainPc, mainIdx, watcherPc, ticksLeft, startsLeft, newDestinations, fetchOk,
                   lastPass, writerVars, auxVars>>

\* namech <- dest: blocks while the dispatch channel is full.
SchedSend(g) ==
    /\ g \in 1..Len(gor)
    /\ gor[g].pc = "send"
    /\ ~namechClosed
    /\ Len(namech) < NameChCap
    /\ namech' = Append(namech, gor[g].dest)
    /\ gor' = [gor EXCEPT ![g].pc = "loop"]
    /\ UNCHANGED <<dest, tickers, registry, backing, regShared, regCap, mainLen, stopch,
                   mainPc, mainIdx, watcherPc, ticksLeft, startsLeft, newDestinations, fetchOk,
                   lastPass, writerVars, auxVars>>

\* case dest := <-destinations of ping: the Sender takes a dispatch event.
PingRecv ==
    /\ pingPc = "loop"
    /\ namech # <<>>
    /\ namech' = Tail(namech)
    /\ UNCHANGED <<heapVars, mainLen, stopch, mainPc, mainIdx, watcherPc, ticksLeft, startsLeft,
                   newDestinations, fetchOk, lastPass, writerVars, auxVars>>

\* ------------------------------------------------------------ the Reconciler
\* Position of the first entry of the slice whose object has identity id, or 0
\* (the inner loop of watchDestinations over destinations).
FindDest(h, id) ==
    IF \E j \in 1..Len(h.reg) : h.dest[h.reg[j]].Id = id
    THEN CHOOSE j \in 1..Len(h.reg) :
            /\ h.dest[h.reg[j]].Id = id
            /\ \A k \in 1..(j - 1) : h.dest[h.reg[k]].Id # id
    ELSE 0

\* An append that also marks the new Destination as running.
AppendDestRunning(h, nd) ==
    LET ref == Len(h.dest) + 1
        inPlace == Len(h.reg) < h.cap
    IN [h EXCEPT !.dest = Append(h.dest, [NewDestination(nd) EXCEPT !.running = TRUE]),
                 !.reg = Append(h.reg, ref),
                 !.backing = IF inPlace /\ h.shared
                             THEN [h.backing EXCEPT ![Len(h.reg) + 1] = ref]
                             ELSE h.backing,
                 !.shared = h.shared /\ inPlace,
                 !.cap = IF inPlace THEN h.cap ELSE GrowCap(h.cap)]

\* destinations = append(destinations, newDestination): the object is kept under
\* a new reference; the element is written in place when the capacity allows it
\* (into main's backing array while it is shared) and into a new array otherwise.
AppendDest(h, nd) ==
    LET ref == Len(h.dest) + 1
        inPlace == Len(h.reg) < h.cap
    IN [h EXCEPT !.dest = Append(h.dest, NewDestination(nd)),
                 !.reg = Append(h.reg, ref),
                 !.backing = IF inPlace /\ h.shared
                             THEN [h.backing EXCEPT ![Len(h.reg) + 1] = ref]
                             ELSE h.backing,
                 !.shared = h.shared /\ inPlace,
                 !.cap = IF inPlace THEN h.cap ELSE GrowCap(h.cap)]

\* An update that replaces the found Destination by the fetched one.
UpdateFieldsRetime(h, d, nd) ==
    LET o == [NewDestination(nd) EXCEPT !.running = h.dest[d].running,
                                        !.stopFlag = h.dest[d].stopFlag,
                                        !.ticker = h.dest[d].ticker]
        h1 == [h EXCEPT !.dest[d] = o]
    IN IF o.ticker = 0 THEN h1
       ELSE [h1 EXCEPT !.tickers[o.ticker].interval = nd.Interval]

UpdateFieldsReplace(h, d, nd) == [h EXCEPT !.dest[d] = NewDestination(nd)]

\* The field-by-field update of a found Destination d from the fetched record nd.
UpdateFields(h, d, nd) ==
    LET o0 == h.dest[d]
        o1 == IF o0.Address # nd.Address THEN [o0 EXCEPT !.Address = nd.Address] ELSE o0
        o2 == IF o1.Interval # nd.Interval THEN [o1 EXCEPT !.Interval = nd.Interval] ELSE o1
        o3 == IF o2.TTL # nd.TTL THEN [o2 EXCEPT !.TTL = nd.TTL] ELSE o2
        o4 == IF o3.Timeout # nd.Timeout THEN [o3 EXCEPT !.Timeout = nd.Timeout] ELSE o3
        o5 == IF o4.Protocol # nd.Protocol THEN [o4 EXCEPT !.Protocol = nd.Protocol] ELSE o4
        o6 == IF o5.Active # nd.Active THEN [o5 EXCEPT !.Active = nd.Active] ELSE o5
        h6 == [h EXCEPT !.dest[d] = o6]
        h7 == IF o5.Active # nd.Active /\ ~o6.Active THEN StopOp(h6, d) ELSE h6
        o7 == h7.dest[d]
        o8 == IF o7.Data # nd.Data THEN [o7 EXCEPT !.Data = nd.Data] ELSE o7
    IN [h7 EXCEPT !.dest[d] = o8]

\* One iteration of the loop over newDestinations.
ApplyNew(h, nd) ==
    LET j == FindDest(h, nd.Id)
    IN IF j = 0 THEN AppendDest(h, nd) ELSE UpdateFields(h, h.reg[j], nd)

RECURSIVE UpdatePass(_, _, _)
\* The loop of watchDestinations over newDestinations, from index i.
UpdatePass(h, new, i) ==
    IF i > Len(new) THEN h ELSE UpdatePass(ApplyNew(h, new[i]), new, i + 1)

\* destinations = append(destinations[:pos], destinations[pos+1:]...): the tail is
\* copied down in place, in main's backing array while it is shared.
RemoveAt(h, pos) ==
    LET n == Len(h.reg)
    IN [h EXCEPT !.reg = SubSeq(h.reg, 1, pos - 1) \o SubSeq(h.reg, pos + 1, n),
                 !.backing = IF h.shared
                             THEN [i \in 1..Len(h.backing) |->
                                     IF i >= pos /\ i < n THEN h.reg[i + 1]
                                     ELSE h.backing[i]]
                             ELSE h.backing]

\* Whether no fetched record has the identity of the entry at position j.
Missing(h, new, j) == \A k \in 1..Len(new) : new[k].Id # h.dest[h.reg[j]].Id

\* Position of the first entry whose identity no fetched record has, or 0.
FirstMissing(h, new) ==
    IF \E j \in 1..Len(h.reg) : Missing(h, new, j)
    THEN CHOOSE j \in 1..Len(h.reg) :
            Missing(h, new, j) /\ \A k \in 1..(j - 1) : ~Missing(h, new, k)
    ELSE 0

\* A delete step that does not restart the scan after a removal.
DeleteCheckOnce(h, new) ==
    LET pos == FirstMissing(h, new)
    IN IF pos = 0 THEN h ELSE RemoveAt(StopOp(h, h.reg[pos]), pos)

RECURSIVE DeleteCheck(_, _)
\* The DeleteCheck loop: Stop and remove the first missing entry, then restart.
DeleteCheck(h, new) ==
    LET pos == FirstMissing(h, new)
    IN IF pos = 0 THEN h
       ELSE DeleteCheck(RemoveAt(StopOp(h, h.reg[pos]), pos), new)

\* The whole pass of a poll tick over the fetched list.
ReconcilePass(h, new) == DeleteCheck(UpdatePass(h, new, 1), new)

\* What a pass from heap h to heap h2 removed, updated and appended.
PassSummary(h, h2) ==
    [removed |-> SelectSeq(h.reg, LAMBDA r : r \notin Range(h2.reg)),
     updated |-> {r \in Range(h.reg) : Fields(h2.dest[r]) # Fields(h.dest[r])},
     added |-> SelectSeq(h2.reg, LAMBDA r : r > Len(h.dest))]

\* case <-t.C of watchDestinations: fetch, then update, append and delete.
ReconcileTick ==
    /\ watcherPc = "run"
    /\ ticksLeft > 0
    /\ \E f \in FetchOutcomes :
         LET h == ReconcilePass(Heap, f.list)
         IN /\ Len(h.dest) <= MaxObjs
            /\ SetHeap(h)
            /\ newDestinations' = f.list
            /\ fetchOk' = f.ok
            /\ lastPass' = PassSummary(Heap, h)
    /\ ticksLeft' = ticksLeft - 1
    /\ UNCHANGED <<mainLen, namech, stopch, mainPc, mainIdx, watcherPc, startsLeft,
                   writerVars, auxVars>>

\* case <-stopch of watchDestinations: the loop ends.
WatcherStop ==
    /\ watcherPc = "run"
    /\ stopch = "closed"
    /\ watcherPc' = "done"
    /\ UNCHANGED <<heapVars, mainLen, namech, stopch, mainPc, mainIdx, ticksLeft, startsLeft,
                   newDestinations, fetchOk, lastPass, writerVars, auxVars>>

\* newDestinations := GetDestinations(db): one fetch of the table.
Fetch ==
    /\ \E ok \in BOOLEAN :
         /\ newDestinations' = GetDestinations(dbTable, IdOrder, ok)
         /\ fetchOk' = (ok /\ \A id \in Ids : dbTable[id] = NoRow \/ ScanOk(dbTable[id]))
    /\ UNCHANGED <<heapVars, mainLen, namech, stopch, mainPc, mainIdx, watcherPc, ticksLeft,
                   startsLeft, lastPass, writerVars, auxVars>>

\* ---------------------------------------------------------------------- main
\* One iteration of `for _, destination := range destinations` in main, which
\* starts the Destinations: the element is read from main's backing array.
MainStart ==
    /\ mainPc = "start"
    /\ LET d == backing[mainIdx]
       IN IF dest[d].running THEN UNCHANGED heapVars ELSE SetHeap(StartOp(Heap, d))
    /\ mainIdx' = mainIdx + 1
    /\ mainPc' = IF mainIdx = mainLen THEN "run" ELSE "start"
    /\ UNCHANGED <<mainLen, namech, stopch, watcherPc, ticksLeft, startsLeft,
                   newDestinations, fetchOk, lastPass, writerVars, auxVars>>

RECURSIVE StopAll(_, _, _)
\* for _, destination := range destinations { destination.Stop() } in main:
\* the elements are read from main's backing array, from index i to n.
StopAll(h, i, n) ==
    IF i > n THEN h ELSE StopAll(StopOp(h, h.backing[i]), i + 1, n)

\* The stop branch of main's loop.
MainStopAll ==
    /\ mainPc = "run"
    /\ SetHeap(StopAll(Heap, 1, mainLen))
    /\ mainPc' = "stopped"
    /\ UNCHANGED <<mainLen, namech, stopch, mainIdx, watcherPc, ticksLeft, startsLeft,
                   newDestinations, fetchOk, lastPass, writerVars, auxVars>>

\* close(stopch)
MainCloseStopch ==
    /\ mainPc = "stopped"
    /\ stopch' = "closed"
    /\ mainPc' = "closed"
    /\ UNCHANGED <<heapVars, mainLen, namech, mainIdx, watcherPc, ticksLeft, startsLeft,
                   newDestinations, fetchOk, lastPass, writerVars, auxVars>>

\* --------------------------------------------------------- the Result Writer
\* The results table and the commit counters as one value.
Store ==
    [persisted |-> persisted, commitLog |-> commitLog,
     dbBatchCommits |-> dbBatchCommits, dbFailedBatchCommits |-> dbFailedBatchCommits,
     dbSingleCommits |-> dbSingleCommits,
     dbFailedSingleCommits |-> dbFailedSingleCommits]

SetStore(w) ==
    /\ persisted' = w.persisted
    /\ commitLog' = w.commitLog
    /\ dbBatchCommits' = w.dbBatchCommits
    /\ dbFailedBatchCommits' = w.dbFailedBatchCommits
    /\ dbSingleCommits' = w.dbSingleCommits
    /\ dbFailedSingleCommits' = w.dbFailedSingleCommits

\* Result.Commit of value v: one transaction with one insert; ok says whether
\* Begin, Prepare and Exec all succeed.  On failure the transaction is rolled back.
Commit(w, v, ok) ==
    [w EXCEPT !.persisted = IF ok THEN Append(@, v) ELSE @,
              !.commitLog = Append(@, [kind |-> "single", results |-> <<v>>, ok |-> ok])]

\* BatchResultWriter over the values vals: one transaction with an insert per
\* value; ok says whether Begin and every insert succeed.  The first failure
\* rolls the transaction back and is returned.
BatchResultWriter(w, vals, ok) ==
    [w EXCEPT !.persisted = IF ok THEN @ \o vals ELSE @,
              !.commitLog = Append(@, [kind |-> "batch", results |-> vals, ok |-> ok])]

\* A single-commit branch that counts successful commits only.
CommitCountedOk(w, v, ok) ==
    LET w1 == Commit(w, v, ok)
    IN IF ok THEN [w1 EXCEPT !.dbSingleCommits = @ + 1] ELSE w1

\* The single-commit branch with its counters.
CommitCounted(w, v, ok) ==
    LET w1 == Commit(w, v, ok)
    IN IF ok THEN [w1 EXCEPT !.dbSingleCommits = @ + 1]
       ELSE [w1 EXCEPT !.dbFailedSingleCommits = @ + 1]

RECURSIVE FallbackReverse(_, _, _, _)
\* A fallback loop that commits the buffer from its last Result to its first.
FallbackReverse(w, vals, oks, i) ==
    IF i > Len(vals) THEN w
    ELSE FallbackReverse(CommitCounted(w, vals[Len(vals) + 1 - i], oks[i]), vals, oks, i + 1)

RECURSIVE FallbackBreak(_, _, _, _)
\* A fallback loop that gives up at the first failed individual commit.
FallbackBreak(w, vals, oks, i) ==
    IF i > Len(vals) THEN w
    ELSE IF oks[i] THEN FallbackBreak(CommitCounted(w, vals[i], TRUE), vals, oks, i + 1)
    ELSE CommitCounted(w, vals[i], FALSE)

RECURSIVE Fallback(_, _, _, _)
\* for _, r := range resultBuf { r.Commit(sqldb) ... }: every buffered Result is
\* committed on its own, from index i; oks[i] is the outcome of the i-th commit.
Fallback(w, vals, oks, i) ==
    IF i > Len(vals) THEN w
    ELSE Fallback(CommitCounted(w, vals[i], oks[i]), vals, oks, i + 1)

\* The batch branch: the batch commit, its counters and the fallback.
FlushBatch(w, vals, ok, oks) ==
    LET w1 == BatchResultWriter(w, vals, ok)
    IN IF ok THEN [w1 EXCEPT !.dbBatchCommits = @ + 1]
       ELSE Fallback([w1 EXCEPT !.dbFailedBatchCommits = @ + 1], vals, oks, 1)

\* The value a buffered pointer c refers to when the loop variable holds the
\* Result cur and rcv are the Results received so far: its own Result when every
\* iteration has its own variable, the current Result when the loop has one.
Deref(c, rcv, cur) == IF perIteration THEN rcv[c] ELSE cur

\* A Receiver puts a Result on the result channel.
ReceiverEmit ==
    /\ ~resultchClosed
    /\ emitted < MaxResults
    /\ Len(resultch) < ResultChCap
    /\ resultch' = Append(resultch, emitted + 1)
    /\ emitted' = emitted + 1
    /\ UNCHANGED <<resultchClosed, writerPc, ResultBatchSize, perIteration, received,
                   resultBuf, persisted, commitLog, dbBatchCommits,
                   dbFailedBatchCommits, dbSingleCommits, dbFailedSingleCommits,
                   heapVars, ctlVars, auxVars>>

\* close(resultch) in main, after the Receivers have returned.
CloseResultch ==
    /\ ~resultchClosed
    /\ resultchClosed' = TRUE
    /\ UNCHANGED <<resultch, emitted, writerPc, ResultBatchSize, perIteration, received,
                   resultBuf, persisted, commitLog, dbBatchCommits,
                   dbFailedBatchCommits, dbSingleCommits, dbFailedSingleCommits,
                   heapVars, ctlVars, auxVars>>

\* One iteration of `for result := range resultchan`.
WriterIter ==
    /\ writerPc = "range"
    /\ resultch # <<>>
    /\ LET result == Head(resultch)
           rcv == Append(received, result)
       IN /\ resultch' = Tail(resultch)
          /\ received' = rcv
          /\ IF ResultBatchSize = 0
             THEN /\ \E ok \in BOOLEAN : SetStore(CommitCounted(Store, result, ok))
                  /\ UNCHANGED resultBuf
             ELSE IF Len(resultBuf) >= ResultBatchSize
             THEN /\ \E ok \in BOOLEAN, oks \in [1..Len(resultBuf) -> BOOLEAN] :
                        SetStore(FlushBatch(Store,
                                            [i \in 1..Len(resultBuf) |->
                                                Deref(resultBuf[i], rcv, result)],
                                            ok, oks))
                  /\ resultBuf' = <<>>
             ELSE /\ resultBuf' = Append(resultBuf, Len(rcv))
                  /\ UNCHANGED <<persisted, commitLog, dbBatchCommits,
                                 dbFailedBatchCommits, dbSingleCommits,
                                 dbFailedSingleCommits>>
    /\ UNCHANGED <<resultchClosed, emitted, writerPc, ResultBatchSize, perIteration,
                   heapVars, ctlVars, auxVars>>

\* The range loop ends: the channel is closed and empty; resultWriter returns.
WriterExit ==
    /\ writerPc = "range"
    /\ resultch = <<>>
    /\ resultchClosed
    /\ writerPc' = "done"
    /\ UNCHANGED <<resultch, resultchClosed, emitted, ResultBatchSize, perIteration,
                   received, resultBuf, persisted, commitLog, dbBatchCommits,
                   dbFailedBatchCommits, dbSingleCommits, dbFailedSingleCommits,
                   heapVars, ctlVars, auxVars>>

\* --------------------------------------------------------- the probe codec
\* unsafe.Sizeof(MagicV1): Magic is a uint8.
MagicSize == 1
\* unsafe.Sizeof(Body): an int64 and two uint32.
BodySize == 8 + 4 + 4

MagicV1 == 146

\* Integers wider than 16 bits are kept as their 16-bit limbs (0..65535), least
\* significant limb first: an int64 (in two's complement) has four limbs, a
\* uint32 two.

ZeroBody == [Timestamp |-> <<0, 0, 0, 0>>, Site |-> <<0, 0>>, Host |-> <<0, 0>>]

\* binary.Write(..., binary.LittleEndian, x) for one integer field: its bytes,
\* least significant first.
PutBigEndian(x) ==
    [i \in 1..(2 * Len(x)) |->
        IF i % 2 = 1 THEN x[Len(x) + 1 - (i + 1) \div 2] \div 256
                     ELSE x[Len(x) + 1 - i \div 2] % 256]

PutLittleEndian(x) ==
    [i \in 1..(2 * Len(x)) |->
        IF i % 2 = 1 THEN x[(i + 1) \div 2] % 256 ELSE x[i \div 2] \div 256]

\* binary.Read(..., binary.LittleEndian, &x) for one integer field of n limbs
\* that starts after the first off bytes of data.
LittleEndian(data, off, n) ==
    [k \in 1..n |-> data[off + 2 * k - 1] + 256 * data[off + 2 * k]]

\* Body.Encode: the fields in declaration order; writing to a bytes.Buffer
\* does not fail.
BodyEncode(b) ==
    [err |-> FALSE,
     bytes |-> PutLittleEndian(b.Timestamp) \o PutLittleEndian(b.Site)
                 \o PutLittleEndian(b.Host)]

BodyDecodePadded(b, data) ==
    LET padded == [i \in 1..BodySize |-> IF i <= Len(data) THEN data[i] ELSE 0]
    IN [err |-> FALSE,
        body |-> [Timestamp |-> LittleEndian(padded, 0, 4),
                  Site |-> LittleEndian(padded, 8, 2),
                  Host |-> LittleEndian(padded, 12, 2)]]

\* Body.Decode into the Body b: binary.Read needs BodySize bytes and returns
\* io.EOF or io.ErrUnexpectedEOF, leaving b alone, when data is shorter; bytes
\* beyond BodySize are not read.
BodyDecode(b, data) ==
    IF Len(data) < BodySize
    THEN [err |-> TRUE, body |-> b]
    ELSE [err |-> FALSE,
          body |-> [Timestamp |-> LittleEndian(data, 0, 4),
                    Site |-> LittleEndian(data, 8, 2),
                    Host |-> LittleEndian(data, 12, 2)]]

\* Magic.Decode: binary.Read of one byte.
MagicDecode(data) ==
    IF Len(data) < MagicSize THEN [err |-> TRUE, magic |-> 0]
    ELSE [err |-> FALSE, magic |-> data[1]]

ValidateMagicDecoded(data) == ~MagicDecode(data).err

\* ValidateMagic: false when the decode fails, else whether the value is a
\* known magic number.
ValidateMagic(data) ==
    LET m == MagicDecode(data)
    IN IF m.err THEN FALSE
       ELSE IF m.magic = MagicV1 THEN TRUE
       ELSE FALSE

\* Body.Encode(codecBody): the encoding replaces the buffer.
CodecEncode ==
    /\ codecPc = "init"
    /\ codecBuf' = BodyEncode(codecBody).bytes
    /\ codecOut' = [err |-> BodyEncode(codecBody).err]
    /\ codecPc' = "encoded"
    /\ UNCHANGED <<codecBody, heapVars, ctlVars, writerVars, taskVars, dbTable, extVars>>

\* Body.Decode(codecBuf) into a zero Body, on the buffer as drawn or on the
\* encoding of codecBody.
CodecDecode ==
    /\ codecPc \in {"init", "encoded"}
    /\ codecOut' = BodyDecode(ZeroBody, codecBuf)
    /\ codecPc' = IF codecPc = "init" THEN "decoded" ELSE "roundtrip"
    /\ UNCHANGED <<codecBody, codecBuf, heapVars, ctlVars, writerVars, taskVars, dbTable, extVars>>

\* Magic.Decode(codecBuf) and ValidateMagic(codecBuf).
CodecMagic ==
    /\ codecPc = "init"
    /\ codecOut' = [err |-> MagicDecode(codecBuf).err, valid |-> ValidateMagic(codecBuf)]
    /\ codecPc' = "magic"
    /\ UNCHANGED <<codecBody, codecBuf, heapVars, ctlVars, writerVars, taskVars, dbTable, extVars>>

\* ------------------------------------------------------------ the Receivers
Receivers == {"v4", "v6"}

ProtoICMP == 1
ProtoICMPv6 == 58

\* receiveMessage.Type.Protocol() in the Receiver r: the protocol number of the
\* address family of its socket, whatever the type of the message.
TypeProtocol(r) == IF r = "v4" THEN ProtoICMP ELSE ProtoICMPv6

\* The address of the peer a packet came from, as peer.String() gives it.
Peer == "192.0.2.7"

NoPacket == [parseOk |-> FALSE, type |-> "none", data |-> <<>>, now |-> <<0, 0, 0, 0>>,
             id |-> 0, seq |-> 0, code |-> 0, peer |-> ""]

NoResult == [Absent |-> TRUE]

\* A packet as icmp.ParseMessage sees it: whether it parses, its type, its code,
\* the ID, Seq and Data of its Echo body and the peer it came from, together
\* with what time.Now().UnixNano() is when the Receiver has parsed it.
\* parseEcho leaves Data nil for an empty payload and else allocates exactly its
\* length, so the capacity of Data is its length.
EchoReplyFrom(data, now, id, sq) ==
    [parseOk |-> TRUE, type |-> "echoReply", data |-> data, now |-> now,
     id |-> id, seq |-> sq, code |-> 0, peer |-> Peer]

\* data[lo:hi] is in range (hi within the capacity).
SliceOk(data, lo, hi) == lo <= hi /\ hi <= Len(data)

\* data[lo:hi]
Slice(data, lo, hi) == SubSeq(data, lo + 1, hi)

\* ---- 64-bit arithmetic on bytes (least significant first, two's complement)
Zero64 == [i \in 1..8 |-> 0]

\* The sign bit of an int64.
Negative(b) == b[8] >= 128

\* a - b modulo 2^64, from byte i on with the borrow of the bytes below.
RECURSIVE SubBytes(_, _, _, _)
SubBytes(a, b, i, borrow) ==
    IF i > Len(a) THEN <<>>
    ELSE LET d == a[i] - b[i] - borrow
         IN <<d % 256>> \o SubBytes(a, b, i + 1, IF d < 0 THEN 1 ELSE 0)

\* -b modulo 2^64
Negate(b) == SubBytes(Zero64, b, 1, 0)

\* math.MaxInt64 and math.MinInt64, the bounds of a time.Duration.
MaxDuration == [i \in 1..8 |-> IF i = 8 THEN 127 ELSE 255]
MinDuration == [i \in 1..8 |-> IF i = 8 THEN 128 ELSE 0]

\* time.Unix(0, t).Sub(time.Unix(0, u)): the difference in nanoseconds, or the
\* largest (smallest) Duration when the difference does not fit an int64.
TimeSub(t, u) ==
    LET d == SubBytes(t, u, 1, 0)
    IN IF Negative(t) # Negative(u) /\ Negative(d) # Negative(t)
       THEN IF Negative(t) THEN MinDuration ELSE MaxDuration
       ELSE d

\* The unsigned quotient of the bytes 1..i of b by n, with the remainder rem of
\* the bytes above.
RECURSIVE DivBytes(_, _, _, _)
DivBytes(b, n, i, rem) ==
    IF i = 0 THEN <<>>
    ELSE LET cur == rem * 256 + b[i]
         IN DivBytes(b, n, i - 1, cur % n) \o <<cur \div n>>

\* time.Millisecond, in nanoseconds.
Millisecond == 1000000

\* d / n of two int64: the quotient truncated toward zero.
Quot(d, n) ==
    IF Negative(d) THEN Negate(DivBytes(Negate(d), n, 8, 0))
    ELSE DivBytes(d, n, 8, 0)

\* uint32(time.Unix(0, now).Sub(time.Unix(0, sent)) / time.Millisecond): the
\* conversion to uint32 keeps the low 32 bits of the quotient.
Rtt(now, sent) ==
    LittleEndian(Quot(TimeSub(PutLittleEndian(now), PutLittleEndian(sent)), Millisecond),
                 0, 2)

\* case ipv4.ICMPTypeEchoReply (ipv6.ICMPTypeEchoReply) of the Receiver r: the
\* Result it builds, or the run-time panic of a slice expression out of range.
\* The Result starts as Result{TimeStamp, Address}; the fields of the envelope
\* are set only for a valid envelope, the others always.
HandleEcho(r, p) ==
    LET blank == [TimeStamp |-> p.now, Address |-> p.peer,
                  ReceiveSite |-> <<0, 0>>, ReceiveHost |-> <<0, 0>>, RTT |-> <<0, 0>>,
                  RequestID |-> p.id % 65536, Sequence |-> p.seq % 65536,
                  Code |-> p.code % 65536, Type |-> TypeProtocol(r) % 65536]
    IN IF ~SliceOk(p.data, 0, MagicSize) THEN [outcome |-> "panic", result |-> NoResult]
       ELSE IF ValidateMagic(Slice(p.data, 0, MagicSize))
       THEN IF ~SliceOk(p.data, MagicSize, BodySize + 1)
            THEN [outcome |-> "panic", result |-> NoResult]
            ELSE LET d == BodyDecode(ZeroBody, Slice(p.data, MagicSize, BodySize + 1))
                 IN [outcome |-> "emit",
                     result |-> IF d.err THEN blank
                                ELSE [blank EXCEPT !.ReceiveSite = d.body.Site,
                                                   !.ReceiveHost = d.body.Host,
                                                   !.RTT = Rtt(p.now, d.body.Timestamp)]]
       ELSE [outcome |-> "emit", result |-> blank]

\* What a Receiver does with a packet it has read: a failed parse is counted and
\* the nil message is then dereferenced by `switch receiveMessage.Type`; a type
\* other than echo reply is dropped.
HandlePacket(r, p) ==
    IF ~p.parseOk THEN [outcome |-> "panic", failed |-> 1, result |-> NoResult]
    ELSE IF p.type = "echoReply"
    THEN [outcome |-> HandleEcho(r, p).outcome, failed |-> 0,
          result |-> HandleEcho(r, p).result]
    ELSE [outcome |-> "drop", failed |-> 0, result |-> NoResult]

\* The select of a Receiver with the stop signal raised: stop = true, the loop
\* ends and the Receiver returns.
RcvStop(r) ==
    /\ rcvPc[r] = "loop"
    /\ stopch = "closed"
    /\ rcvPc' = [rcvPc EXCEPT ![r] = "done"]
    /\ UNCHANGED <<rcvPacket, rcvResult, readsLeft, results, parseFailed, resultch, emitted>>

\* The default branch of the select: the Receiver enters conn.ReadFrom.
RcvSelect(r) ==
    /\ rcvPc[r] = "loop"
    /\ stopch = "open"
    /\ rcvPc' = [rcvPc EXCEPT ![r] = "read"]
    /\ UNCHANGED <<rcvPacket, rcvResult, readsLeft, results, parseFailed, resultch, emitted>>

\* conn.ReadFrom returns with a timeout or another error: continue.
RcvTimeout(r) ==
    /\ rcvPc[r] = "read"
    /\ rcvPc' = [rcvPc EXCEPT ![r] = "loop"]
    /\ UNCHANGED <<rcvPacket, rcvResult, readsLeft, results, parseFailed, resultch, emitted>>

\* conn.ReadFrom returns a packet, which the Receiver handles up to the send.
RcvRead(r) ==
    /\ rcvPc[r] = "read"
    /\ readsLeft > 0
    /\ \E p \in network :
         LET o == HandlePacket(r, p)
         IN /\ rcvPacket' = [rcvPacket EXCEPT ![r] = p]
            /\ parseFailed' = [parseFailed EXCEPT ![r] = @ + o.failed]
            /\ rcvResult' = [rcvResult EXCEPT ![r] = o.result]
            /\ rcvPc' = [rcvPc EXCEPT ![r] = CASE o.outcome = "panic" -> "panic"
                                                [] o.outcome = "drop" -> "loop"
                                                [] o.outcome = "emit" -> "send"]
    /\ readsLeft' = readsLeft - 1
    /\ UNCHANGED <<results, resultch, emitted>>

\* resultchan <- result: blocks while the result channel is full, panics when
\* it is closed.
RcvSend(r) ==
    /\ rcvPc[r] = "send"
    /\ IF resultchClosed
       THEN /\ rcvPc' = [rcvPc EXCEPT ![r] = "panic"]
            /\ UNCHANGED <<rcvResult, results, resultch, emitted>>
       ELSE /\ Len(resultch) < ResultChCap
            /\ resultch' = Append(resultch, emitted + 1)
            /\ emitted' = emitted + 1
            /\ results' = Append(results, rcvResult[r])
            /\ rcvResult' = [rcvResult EXCEPT ![r] = NoResult]
            /\ rcvPc' = [rcvPc EXCEPT ![r] = "loop"]
    /\ UNCHANGED <<rcvPacket, readsLeft, parseFailed>>

\* The steps of a Receiver.
RcvStep(r) ==
    /\ r \in Receivers
    /\ \/ RcvStop(r)
       \/ RcvSelect(r)
       \/ RcvTimeout(r)
       \/ RcvRead(r)
       \/ RcvSend(r)
    /\ UNCHANGED <<heapVars, ctlVars, resultchClosed, writerPc, ResultBatchSize,
                   perIteration, received, resultBuf, persisted, commitLog, dbBatchCommits,
                   dbFailedBatchCommits, dbSingleCommits, dbFailedSingleCommits,
                   namechClosed, pingPc, network, codecVars, dbTable, extVars>>

\* conn.SetDeadline at the head of an iteration returns an error: log.Fatalf.
RcvDeadlineFail(r) ==
    /\ r \in Receivers
    /\ rcvPc[r] = "loop"
    /\ rcvPc' = [rcvPc EXCEPT ![r] = "fatal"]
    /\ UNCHANGED <<heapVars, ctlVars, writerVars, namechClosed, pingPc, rcvPacket, rcvResult,
                   readsLeft, network, results, parseFailed, codecVars, dbTable, extVars>>

\* --------------------------------------------------------------- the Sender
\* case <-stopch of ping: stop = true, the loop ends and ping returns; what is
\* still queued on the dispatch channel stays there.
PingStop ==
    /\ pingPc = "loop"
    /\ stopch = "closed"
    /\ pingPc' = "done"
    /\ UNCHANGED <<heapVars, ctlVars, writerVars, namechClosed, rcvPc, rcvPacket, rcvResult,
                   readsLeft, network, results, parseFailed, codecVars, dbTable, extVars>>

\* ---------------------------------------------------------- main's shutdown
\* A send on the closed dispatch channel: the Scheduler goroutine panics.
SchedSendClosed(g) ==
    /\ g \in 1..Len(gor)
    /\ gor[g].pc = "send"
    /\ namechClosed
    /\ gor' = [gor EXCEPT ![g].pc = "panic"]
    /\ UNCHANGED <<dest, tickers, registry, backing, regShared, regCap, ctlVars, writerVars,
                   auxVars>>

\* The counters of the WaitGroups: a goroutine counts from its wg.Add(1) to its
\* deferred wg.Done().  The goroutines main launches at start-up have made their
\* wg.Add(1) by the time main gets to its shutdown procedure.
ReceiveWG == Cardinality({r \in Receivers : rcvPc[r] \in {"loop", "read", "send"}})

ResultWG == IF writerPc = "range" THEN 1 ELSE 0

DestWG ==
    Cardinality({g \in 1..Len(gor) : gor[g].pc \in {"loop", "select", "send", "exit"}})
        + (IF watcherPc = "run" THEN 1 ELSE 0)

PingWG == IF pingPc = "loop" THEN 1 ELSE 0

\* receiveWG.Wait() returns; close(resultch).
MainCloseResultch ==
    /\ mainPc = "closed"
    /\ ReceiveWG = 0
    /\ resultchClosed' = TRUE
    /\ mainPc' = "resultchClosed"
    /\ UNCHANGED <<heapVars, mainLen, namech, stopch, mainIdx, watcherPc, ticksLeft,
                   startsLeft, newDestinations, fetchOk, lastPass, resultch, emitted,
                   writerPc, ResultBatchSize, perIteration, received, resultBuf, persisted,
                   commitLog, dbBatchCommits, dbFailedBatchCommits, dbSingleCommits,
                   dbFailedSingleCommits, auxVars>>

\* resultWG.Wait() returns; close(namech).
MainCloseNamech ==
    /\ mainPc = "resultchClosed"
    /\ ResultWG = 0
    /\ namechClosed' = TRUE
    /\ mainPc' = "namechClosed"
    /\ UNCHANGED <<heapVars, mainLen, namech, stopch, mainIdx, watcherPc, ticksLeft,
                   startsLeft, newDestinations, fetchOk, lastPass, writerVars, pingPc,
                   rcvPc, rcvPacket, rcvResult, readsLeft, network, results, parseFailed,
                   codecVars, dbTable, extVars>>

\* destWG.Wait() returns.
MainWaitDest ==
    /\ mainPc = "namechClosed"
    /\ DestWG = 0
    /\ mainPc' = "destDone"
    /\ UNCHANGED <<heapVars, mainLen, namech, stopch, mainIdx, watcherPc, ticksLeft,
                   startsLeft, newDestinations, fetchOk, lastPass, writerVars, auxVars>>

\* pingWG.Wait() returns; main returns and the process ends.
MainReturn ==
    /\ mainPc = "destDone"
    /\ PingWG = 0
    /\ mainPc' = "returned"
    /\ UNCHANGED <<heapVars, mainLen, namech, stopch, mainIdx, watcherPc, ticksLeft,
                   startsLeft, newDestinations, fetchOk, lastPass, writerVars, auxVars>>

\* ------------------------------------------------------- Destination.Commit
\* The id SQLite gives an inserted row: one more than the largest in use.
NextId(tbl) ==
    LET used == {id \in Ids : tbl[id] # NoRow}
    IN IF used = {} THEN 1 ELSE 1 + CHOOSE id \in used : \A o \in used : o <= id

\* The columns Destination.Commit inserts.
RowOf(d) ==
    [Active |-> d.Active, Address |-> d.Address, Protocol |-> d.Protocol,
     Interval |-> d.Interval, Timeout |-> d.Timeout, TTL |-> d.TTL, Data |-> d.Data]

DestinationCommitClamped(tbl, d, dbOk, txOk) ==
    IF d.Protocol < ProtoUDP4 \/ d.Protocol > ProtoUDP6 THEN [err |-> TRUE, tbl |-> tbl]
    ELSE IF ~dbOk THEN [err |-> TRUE, tbl |-> tbl]
    ELSE IF ~txOk THEN [err |-> FALSE, tbl |-> tbl]
    ELSE [err |-> FALSE, tbl |-> [tbl EXCEPT ![NextId(tbl)] = RowOf(Clamp(d))]]

\* Destination.Commit: the data validation, then the INSERT in a transaction.
\* dbOk: Begin, Prepare and Exec succeed; txOk: tx.Commit, whose error the
\* code ignores, succeeds.
DestinationCommit(tbl, d, dbOk, txOk) ==
    IF d.Protocol < ProtoUDP4 \/ d.Protocol > ProtoUDP6 THEN [err |-> TRUE, tbl |-> tbl]
    ELSE IF d.Interval < MinProbeInterval THEN [err |-> TRUE, tbl |-> tbl]
    ELSE IF d.TTL < MinProbeTTL THEN [err |-> TRUE, tbl |-> tbl]
    ELSE IF d.TTL > MaxProbeTTL THEN [err |-> TRUE, tbl |-> tbl]
    ELSE IF Len(d.Data) > MaxPayloadSize THEN [err |-> TRUE, tbl |-> tbl]
    ELSE IF ~dbOk THEN [err |-> TRUE, tbl |-> tbl]
    ELSE IF ~txOk THEN [err |-> FALSE, tbl |-> tbl]
    ELSE [err |-> FALSE, tbl |-> [tbl EXCEPT ![NextId(tbl)] = RowOf(d)]]

\* The Destinations a caller may hand to Commit: every combination of field
\* values at and just outside the bounds.
CommitDests ==
    {[Active |-> a, Address |-> "a.example", Protocol |-> pr, Interval |-> iv,
      Timeout |-> 1000, TTL |-> ttl, Data |-> Payload(n, 9)] :
        a \in BOOLEAN,
        pr \in {ProtoUDP4 - 1, ProtoUDP4, ProtoUDP6, ProtoUDP6 + 1},
        iv \in {MinProbeInterval - 1, MinProbeInterval, MinProbeInterval + 1},
        ttl \in {MinProbeTTL - 1, MinProbeTTL, MaxProbeTTL, MaxProbeTTL + 1},
        n \in {0, MaxPayloadSize, MaxPayloadSize + 1}}

\* The one call of d.Commit(db) that a caller makes.
CommitCall ==
    /\ ~commitRes.called
    /\ NextId(dbTable) \in Ids
    /\ \E d \in CommitDests, dbOk \in BOOLEAN, txOk \in BOOLEAN :
         LET r == DestinationCommit(dbTable, d, dbOk, txOk)
         IN /\ commitRes' = [called |-> TRUE, dest |-> d, err |-> r.err]
            /\ dbTable' = r.tbl
    /\ UNCHANGED <<heapVars, ctlVars, writerVars, taskVars, codecVars, senderVars,
                   cyclePc, cycleDest, raceVars>>

\* ----------------------------------------------------------------- the Sender
SenderID == 121
SiteID == 101

\* A uint32 as 16-bit limbs, least significant first.
U32(n) == <<n % 65536, n \div 65536>>

\* ID of the echo requests: SenderID<<8 | 0x0000 + 1 (| and + bind alike).
EchoID == (SenderID * 256) + 1

\* time.Now().UnixNano() at the probes of the model.
Now == <<513, 1027, 1541, 2055>>

\* Magic.Encode of MagicV1: its one byte, or nil with the error of binary.Write.
MagicEncode(failed) ==
    IF failed THEN [err |-> TRUE, bytes |-> <<>>]
    ELSE [err |-> FALSE, bytes |-> <<MagicV1>>]

SenderBodyEncodeHostFirst(failed, now) ==
    IF failed THEN [err |-> TRUE, bytes |-> <<>>]
    ELSE BodyEncode([Timestamp |-> now, Site |-> U32(SenderID), Host |-> U32(SiteID)])

\* body.Encode() of the Body ping builds, or nil with the error of binary.Write.
SenderBodyEncode(failed, now) ==
    IF failed THEN [err |-> TRUE, bytes |-> <<>>]
    ELSE BodyEncode([Timestamp |-> now, Site |-> U32(SiteID), Host |-> U32(SenderID)])

BuildPayloadKeepMagic(magicErr, bodyErr, now, data) ==
    MagicEncode(magicErr).bytes \o SenderBodyEncode(bodyErr, now).bytes \o data

\* bodyBuffer of ping: the magic number is written first, the buffer is reset
\* when either Encode failed and takes the Body otherwise, dest.Data comes last.
BuildPayload(magicErr, bodyErr, now, data) ==
    LET magic == MagicEncode(magicErr)
        body == SenderBodyEncode(bodyErr, now)
        written1 == magic.bytes
        written2 == IF body.err \/ magic.err THEN <<>> ELSE written1 \o body.bytes
    IN written2 \o data

IsEmptyDestNoAddress(ds, d) == d = 0 \/ ds[d].Protocol = 0

\* dest == nil || dest.Address == "" || dest.Protocol == 0, the nil pointer
\* being 0.
IsEmptyDest(ds, d) == d = 0 \/ ds[d].Address = "" \/ ds[d].Protocol = 0

\* What net.ResolveIPAddr returns: an address, or an error of some type.
ResolveOk == [type |-> "none", IsTimeout |-> FALSE, IsTemporary |-> FALSE]

ResolveResults ==
    {ResolveOk}
      \cup {[type |-> "DNSError", IsTimeout |-> t, IsTemporary |-> p] : t, p \in BOOLEAN}
      \cup {[type |-> ty, IsTimeout |-> FALSE, IsTemporary |-> FALSE] :
              ty \in {"AddrError", "other"}}

CountResolveErrorEach(m, e) ==
    IF e.type = "DNSError"
    THEN [m EXCEPT !.dnsTimeout = IF e.IsTimeout THEN @ + 1 ELSE @,
                   !.dnsTempFail = IF e.IsTemporary THEN @ + 1 ELSE @,
                   !.dnsError = IF ~e.IsTimeout /\ ~e.IsTemporary THEN @ + 1 ELSE @]
    ELSE IF e.type = "AddrError" THEN [m EXCEPT !.addrError = @ + 1]
    ELSE [m EXCEPT !.unknownError = @ + 1]

\* switch err.(type) after a failed resolution: the metrics m with the counter
\* of the error's class incremented.
CountResolveError(m, e) ==
    IF e.type = "DNSError"
    THEN IF e.IsTimeout THEN [m EXCEPT !.dnsTimeout = @ + 1]
         ELSE IF e.IsTemporary THEN [m EXCEPT !.dnsTempFail = @ + 1]
         ELSE [m EXCEPT !.dnsError = @ + 1]
    ELSE IF e.type = "AddrError" THEN [m EXCEPT !.addrError = @ + 1]
    ELSE [m EXCEPT !.unknownError = @ + 1]

\* The inputs of one iteration that the code did not consult, at their defaults.
Consulted(in, magic, body, resolve, marshal, write) ==
    [magicErr |-> magic /\ in.magicErr, bodyErr |-> body /\ in.bodyErr,
     resolve |-> IF resolve THEN in.resolve ELSE ResolveOk,
     marshalOk |-> marshal => in.marshalOk, writeOk |-> write => in.writeOk]

\* The results of the calls of one iteration, those of the calls a failure
\* leaves out at their defaults.
CallResults ==
    {Consulted([magicErr |-> m, bodyErr |-> b, resolve |-> r, marshalOk |-> mo,
                writeOk |-> w], TRUE, TRUE, TRUE, r.type = "none", r.type = "none" /\ mo) :
       m, b, mo, w \in BOOLEAN, r \in ResolveResults}

PingIterationCountFirst(s, ds, d, in) ==
    IF IsEmptyDest(ds, d)
    THEN [seq |-> s.seq, metrics |-> [s.metrics EXCEPT !.emptyDest = @ + 1],
          written |-> s.written, outcome |-> "empty", payload |-> <<>>,
          in |-> Consulted(in, FALSE, FALSE, FALSE, FALSE, FALSE)]
    ELSE LET payload == BuildPayload(in.magicErr, in.bodyErr, Now, ds[d].Data)
             v6 == ds[d].Protocol = ProtoUDP6
         IN IF in.resolve.type # "none"
            THEN [seq |-> s.seq + 1, metrics |-> CountResolveError(s.metrics, in.resolve),
                  written |-> s.written, outcome |-> "resolveFailed", payload |-> payload,
                  in |-> Consulted(in, TRUE, TRUE, TRUE, FALSE, FALSE)]
            ELSE IF ~in.marshalOk
            THEN [seq |-> s.seq, metrics |-> s.metrics, written |-> s.written,
                  outcome |-> "fatal", payload |-> payload,
                  in |-> Consulted(in, TRUE, TRUE, TRUE, TRUE, FALSE)]
            ELSE IF ~in.writeOk
            THEN [seq |-> s.seq + 1,
                  metrics |-> IF v6 THEN [s.metrics EXCEPT !.v6Failed = @ + 1]
                              ELSE [s.metrics EXCEPT !.v4Failed = @ + 1],
                  written |-> s.written, outcome |-> "writeFailed", payload |-> payload,
                  in |-> Consulted(in, TRUE, TRUE, TRUE, TRUE, TRUE)]
            ELSE [seq |-> s.seq + 1,
                  metrics |-> IF v6 THEN [s.metrics EXCEPT !.v6Sent = @ + 1]
                              ELSE [s.metrics EXCEPT !.v4Sent = @ + 1],
                  written |-> Append(s.written,
                                     [conn |-> IF v6 THEN "v6" ELSE "v4",
                                      address |-> ds[d].Address, id |-> EchoID,
                                      seq |-> s.seq % 65536, data |-> payload]),
                  outcome |-> "sent", payload |-> payload,
                  in |-> Consulted(in, TRUE, TRUE, TRUE, TRUE, TRUE)]

\* One iteration of ping's loop for the event d (0 is the nil pointer a closed
\* channel yields) of the Destinations ds, the Sender being s, with the results
\* in of the calls it makes: the Sender afterwards, what became of the event,
\* and the payload built for it.  "fatal" is log.Fatal.
PingIteration(s, ds, d, in) ==
    IF IsEmptyDest(ds, d)
    THEN [seq |-> s.seq, metrics |-> [s.metrics EXCEPT !.emptyDest = @ + 1],
          written |-> s.written, outcome |-> "empty", payload |-> <<>>,
          in |-> Consulted(in, FALSE, FALSE, FALSE, FALSE, FALSE)]
    ELSE LET payload == BuildPayload(in.magicErr, in.bodyErr, Now, ds[d].Data)
             v6 == ds[d].Protocol = ProtoUDP6
         IN IF in.resolve.type # "none"
            THEN [seq |-> s.seq, metrics |-> CountResolveError(s.metrics, in.resolve),
                  written |-> s.written, outcome |-> "resolveFailed", payload |-> payload,
                  in |-> Consulted(in, TRUE, TRUE, TRUE, FALSE, FALSE)]
            ELSE IF ~in.marshalOk
            THEN [seq |-> s.seq, metrics |-> s.metrics, written |-> s.written,
                  outcome |-> "fatal", payload |-> payload,
                  in |-> Consulted(in, TRUE, TRUE, TRUE, TRUE, FALSE)]
            ELSE IF ~in.writeOk
            THEN [seq |-> s.seq,
                  metrics |-> IF v6 THEN [s.metrics EXCEPT !.v6Failed = @ + 1]
                              ELSE [s.metrics EXCEPT !.v4Failed = @ + 1],
                  written |-> s.written, outcome |-> "writeFailed", payload |-> payload,
                  in |-> Consulted(in, TRUE, TRUE, TRUE, TRUE, TRUE)]
            ELSE [seq |-> s.seq + 1,
                  metrics |-> IF v6 THEN [s.metrics EXCEPT !.v6Sent = @ + 1]
                              ELSE [s.metrics EXCEPT !.v4Sent = @ + 1],
                  written |-> Append(s.written,
                                     [conn |-> IF v6 THEN "v6" ELSE "v4",
                                      address |-> ds[d].Address, id |-> EchoID,
                                      seq |-> s.seq % 65536, data |-> payload]),
                  outcome |-> "sent", payload |-> payload,
                  in |-> Consulted(in, TRUE, TRUE, TRUE, TRUE, TRUE)]

\* case dest := <-destinations of ping, to the end of the iteration: the event
\* is the head of the dispatch channel, or nil once the channel is closed and
\* drained.
PingHandle ==
    /\ pingPc = "loop"
    /\ sendsLeft > 0
    /\ namech # <<>> \/ namechClosed
    /\ \E in \in CallResults :
         LET d == IF namech # <<>> THEN Head(namech) ELSE 0
             r == PingIteration([seq |-> seq, metrics |-> metrics, written |-> written],
                                dest, d, in)
         IN /\ namech' = IF namech # <<>> THEN Tail(namech) ELSE namech
            /\ seq' = r.seq
            /\ metrics' = r.metrics
            /\ written' = r.written
            /\ lastEvent' = [kind |-> "event", dest |-> d, in |-> r.in,
                             outcome |-> r.outcome, payload |-> r.payload]
            /\ sendsLeft' = sendsLeft - 1
            /\ pingPc' = IF r.outcome = "fatal" THEN "fatal" ELSE "loop"
    /\ UNCHANGED <<heapVars, mainLen, stopch, mainPc, mainIdx, watcherPc, ticksLeft,
                   startsLeft, newDestinations, fetchOk, lastPass, writerVars,
                   namechClosed, rcvPc, rcvPacket, rcvResult, readsLeft, network, results,
                   parseFailed, codecVars, dbTable, commitRes, cyclePc, cycleDest,
                   raceVars>>

\* namech <- dest of the Scheduler goroutine of a Destination of the Registry,
\* its ticks left out.
Dispatch(j) ==
    /\ j \in 1..Len(registry)
    /\ mainPc = "run"
    /\ ~namechClosed
    /\ Len(namech) < NameChCap
    /\ namech' = Append(namech, registry[j])
    /\ UNCHANGED <<heapVars, mainLen, stopch, mainPc, mainIdx, watcherPc, ticksLeft,
                   startsLeft, newDestinations, fetchOk, lastPass, writerVars, auxVars>>

\* A caller stops a running Destination of the Registry: dest.Stop().
CycleStop(d) ==
    /\ cyclePc = "idle"
    /\ mainPc = "run"
    /\ d \in Range(registry)
    /\ dest[d].running
    /\ SetHeap(StopOp(Heap, d))
    /\ cyclePc' = "stopped"
    /\ cycleDest' = d
    /\ UNCHANGED <<ctlVars, writerVars, taskVars, codecVars, dbTable, commitRes,
                   senderVars, raceVars>>

\* The caller then starts it again: dest.Start(namech, stopch, wg), which
\* returns at once while dest.running is set.
CycleStart ==
    /\ cyclePc = "stopped"
    /\ IF dest[cycleDest].running
       THEN UNCHANGED <<heapVars, startsLeft>>
       ELSE /\ startsLeft > 0
            /\ startsLeft' = startsLeft - 1
            /\ SetHeap(StartOp(Heap, cycleDest))
    /\ cyclePc' = "started"
    /\ UNCHANGED <<mainLen, namech, stopch, mainPc, mainIdx, watcherPc, ticksLeft,
                   newDestinations, fetchOk, lastPass, writerVars, taskVars, codecVars,
                   dbTable, commitRes, senderVars, cycleDest, raceVars>>

\* time.Now().UnixNano() of a Receiver 250 ms after the probes of the model.
RecvTime == <<46209, 4841, 1541, 2055>>

\* An echo reply to the first probe of this Sender, parsed at the time now.
EchoReply(data, now) == EchoReplyFrom(data, now, EchoID, 0)

\* The host probed answers a probe that was written: an echo reply with the
\* ID, Seq and data of the echo request reaches the sockets of the Receivers.
Reflect ==
    /\ \E i \in 1..Len(written) :
         LET reply == EchoReplyFrom(written[i].data, RecvTime, written[i].id,
                                    written[i].seq)
         IN /\ reply \notin network
            /\ network' = network \cup {reply}
    /\ UNCHANGED <<heapVars, ctlVars, writerVars, namechClosed, pingPc, rcvPc, rcvPacket,
                   rcvResult, readsLeft, results, parseFailed, codecVars, dbTable, extVars>>

\* ------------------------------------- ping and watchDestinations, by field
\* ping takes a dispatch event and tests dest.Address and dest.Protocol; an
\* empty Destination ends the iteration, any other is kept for the reads below.
ProbeTake ==
    /\ pingPc = "loop"
    /\ probe = NoProbe
    /\ sendsLeft > 0
    /\ namech # <<>>
    /\ LET d == Head(namech)
       IN IF IsEmptyDest(dest, d)
          THEN LET r == PingIteration([seq |-> seq, metrics |-> metrics,
                                       written |-> written], dest, d,
                                      [magicErr |-> FALSE, bodyErr |-> FALSE,
                                       resolve |-> ResolveOk, marshalOk |-> TRUE,
                                       writeOk |-> TRUE])
               IN /\ metrics' = r.metrics
                  /\ lastEvent' = [kind |-> "event", dest |-> d, in |-> r.in,
                                   outcome |-> r.outcome, payload |-> r.payload]
                  /\ sendsLeft' = sendsLeft - 1
                  /\ UNCHANGED probe
          ELSE /\ probe' = [pc |-> "data", dest |-> d]
               /\ UNCHANGED <<metrics, lastEvent, sendsLeft>>
    /\ namech' = Tail(namech)
    /\ UNCHANGED <<heapVars, mainLen, stopch, mainPc, mainIdx, watcherPc, ticksLeft,
                   startsLeft, newDestinations, fetchOk, lastPass, writerVars, taskVars,
                   codecVars, dbTable, commitRes, seq, written, cyclePc, cycleDest,
                   update>>

\* bodyBuffer.Write(dest.Data): ping reads the payload.
ProbeReadData ==
    /\ probe.pc = "data"
    /\ probe' = [pc |-> "proto", dest |-> probe.dest, Data |-> dest[probe.dest].Data]
    /\ UNCHANGED <<heapVars, ctlVars, writerVars, taskVars, codecVars, dbTable, commitRes,
                   senderVars, cyclePc, cycleDest, update>>

\* if dest.Protocol == data.ProtoUDP6: ping reads the protocol.
ProbeReadProtocol ==
    /\ probe.pc = "proto"
    /\ probe' = [pc |-> "addr", dest |-> probe.dest, Data |-> probe.Data,
                 Protocol |-> dest[probe.dest].Protocol]
    /\ UNCHANGED <<heapVars, ctlVars, writerVars, taskVars, codecVars, dbTable, commitRes,
                   senderVars, cyclePc, cycleDest, update>>

\* net.ResolveIPAddr(listenNetType, dest.Address): ping reads the address, and
\* the iteration runs to its end with the payload and the protocol it read.
ProbeSend ==
    /\ probe.pc = "addr"
    /\ \E in \in CallResults :
         LET d == probe.dest
             r == PingIteration([seq |-> seq, metrics |-> metrics, written |-> written],
                                [dest EXCEPT ![d].Data = probe.Data,
                                             ![d].Protocol = probe.Protocol],
                                d, in)
         IN /\ seq' = r.seq
            /\ metrics' = r.metrics
            /\ written' = r.written
            /\ lastEvent' = [kind |-> "event", dest |-> d, in |-> r.in,
                             outcome |-> r.outcome, payload |-> r.payload]
            /\ sendsLeft' = sendsLeft - 1
            /\ pingPc' = IF r.outcome = "fatal" THEN "fatal" ELSE "loop"
    /\ probe' = NoProbe
    /\ UNCHANGED <<heapVars, ctlVars, writerVars, namechClosed, rcvPc, rcvPacket,
                   rcvResult, readsLeft, network, results, parseFailed, codecVars,
                   dbTable, commitRes, cyclePc, cycleDest, update>>

\* The k-th of the seven field comparisons of watchDestinations on the found
\* Destination d; an assignment is made only where the fields differ, which
\* leaves the field as the assignment alone does.
UpdateField(h, d, nd, k) ==
    CASE k = 1 -> [h EXCEPT !.dest[d].Address = nd.Address]
      [] k = 2 -> [h EXCEPT !.dest[d].Interval = nd.Interval]
      [] k = 3 -> [h EXCEPT !.dest[d].TTL = nd.TTL]
      [] k = 4 -> [h EXCEPT !.dest[d].Timeout = nd.Timeout]
      [] k = 5 -> [h EXCEPT !.dest[d].Protocol = nd.Protocol]
      [] k = 6 -> IF h.dest[d].Active # nd.Active /\ ~nd.Active
                  THEN StopOp([h EXCEPT !.dest[d].Active = nd.Active], d)
                  ELSE [h EXCEPT !.dest[d].Active = nd.Active]
      [] k = 7 -> [h EXCEPT !.dest[d].Data = nd.Data]

\* case <-t.C of watchDestinations with a table that holds one row, under the
\* id of the one Destination of the Registry: the fetch, and the search that
\* finds the Destination.
UpdateBegin ==
    /\ watcherPc = "run"
    /\ ticksLeft > 0
    /\ update = NoUpdate
    /\ \E f \in FetchOutcomes :
         /\ Len(f.list) = 1
         /\ Len(registry) = 1
         /\ FindDest(Heap, f.list[1].Id) # 0
         /\ newDestinations' = f.list
         /\ fetchOk' = f.ok
         /\ update' = [pc |-> 1, dest |-> registry[FindDest(Heap, f.list[1].Id)],
                       nd |-> f.list[1], before |-> Heap]
    /\ ticksLeft' = ticksLeft - 1
    /\ UNCHANGED <<heapVars, mainLen, namech, stopch, mainPc, mainIdx, watcherPc,
                   startsLeft, lastPass, writerVars, taskVars, codecVars, dbTable,
                   commitRes, senderVars, cyclePc, cycleDest, probe>>

\* The next field comparison of the update; after the last one the pass ends
\* (the deletion check finds the Destination in the fetched list).
UpdateWrite ==
    /\ update.pc \in 1..7
    /\ LET h == UpdateField(Heap, update.dest, update.nd, update.pc)
       IN /\ SetHeap(h)
          /\ IF update.pc = 7
             THEN /\ update' = NoUpdate
                  /\ lastPass' = PassSummary(update.before, h)
             ELSE /\ update' = [update EXCEPT !.pc = @ + 1]
                  /\ UNCHANGED lastPass
    /\ UNCHANGED <<mainLen, namech, stopch, mainPc, mainIdx, watcherPc, ticksLeft,
                   startsLeft, newDestinations, fetchOk, writerVars, taskVars, codecVars,
                   dbTable, commitRes, senderVars, cyclePc, cycleDest, probe>>

\* ------------------------------------------------------------ specifications
\* The heap after main has loaded the Registry: destinations := GetDestinations.
LoadHeap(list) ==
    [dest |-> [i \in 1..Len(list) |-> NewDestination(list[i])],
     tickers |-> <<>>, gor |-> <<>>,
     reg |-> [i \in 1..Len(list) |-> i],
     backing |-> [i \in 1..Len(list) |-> i],
     shared |-> TRUE, cap |-> CapFor(Len(list), 0)]

\* The Result Writer before any Result: resultWriter has just been started.
WriterStart(n, p) ==
    /\ resultch = <<>>
    /\ resultchClosed = FALSE
    /\ emitted = 0
    /\ writerPc = "range"
    /\ ResultBatchSize = n
    /\ perIteration = p
    /\ received = <<>>
    /\ resultBuf = <<>>
    /\ persisted = <<>>
    /\ commitLog = <<>>
    /\ dbBatchCommits = 0
    /\ dbFailedBatchCommits = 0
    /\ dbSingleCommits = 0
    /\ dbFailedSingleCommits = 0

\* The control state once main has launched its goroutines, the heap being h
\* and main being at pc.
Launched(h, list, pc, starts, ticks) ==
    /\ dest = h.dest
    /\ tickers = h.tickers
    /\ gor = h.gor
    /\ registry = h.reg
    /\ backing = h.backing
    /\ regShared = h.shared
    /\ regCap = h.cap
    /\ mainLen = Len(list)
    /\ namech = <<>>
    /\ stopch = "open"
    /\ mainPc = pc
    /\ mainIdx = 1
    /\ watcherPc = "run"
    /\ ticksLeft = ticks
    /\ startsLeft = starts
    /\ newDestinations = list
    /\ fetchOk = TRUE
    /\ lastPass = [removed |-> <<>>, updated |-> {}, added |-> <<>>]

\* The Sender and the Receivers at position pc, with reads packets to come
\* from net.
TasksStart(pc, reads, net) ==
    /\ namechClosed = FALSE
    /\ pingPc = pc
    /\ rcvPc = [r \in Receivers |-> pc]
    /\ rcvPacket = [r \in Receivers |-> NoPacket]
    /\ rcvResult = [r \in Receivers |-> NoResult]
    /\ readsLeft = reads
    /\ network = net
    /\ results = <<>>
    /\ parseFailed = [r \in Receivers |-> 0]

\* No call of the codec has been made.
CodecStart(b, data) ==
    /\ codecBody = b
    /\ codecBuf = data
    /\ codecOut = [err |-> FALSE]
    /\ codecPc = "init"

EmptyTable == [id \in Ids |-> NoRow]

NoEvent == [kind |-> "none"]

ZeroMetrics ==
    [emptyDest |-> 0, dnsTimeout |-> 0, dnsTempFail |-> 0, dnsError |-> 0, addrError |-> 0,
     unknownError |-> 0, v4Sent |-> 0, v4Failed |-> 0, v6Sent |-> 0, v6Failed |-> 0]

\* ping has just been started and may handle sends dispatch events; nobody
\* has called Destination.Commit or restarts a Destination.
ExtStart(sends) ==
    /\ commitRes = [called |-> FALSE]
    /\ seq = 0
    /\ metrics = ZeroMetrics
    /\ written = <<>>
    /\ lastEvent = NoEvent
    /\ sendsLeft = sends
    /\ cyclePc = "idle"
    /\ cycleDest = 0
    /\ probe = NoProbe
    /\ update = NoUpdate

\* The Sender and the Receivers running on a silent network.
Quiet ==
    /\ TasksStart("loop", 0, {})
    /\ CodecStart(ZeroBody, <<>>)
    /\ dbTable = EmptyTable
    /\ ExtStart(0)

\* Table contents at start-up: one Destination, or none.
InitTables ==
    {tbl \in DbTables : tbl[1] \in {RowA, NoRow} /\ \A id \in Ids \ {1} : tbl[id] = NoRow}

InitWith(starts, ticks) ==
    /\ \E tbl \in InitTables :
         LET list == GetDestinations(tbl, IdOrder, TRUE)
         IN Launched(LoadHeap(list), list, IF list = <<>> THEN "run" ELSE "start",
                     starts, ticks)
    /\ WriterStart(MaxBatchSize, TRUE)
    /\ Quiet

Init == InitWith(0, MaxTicks)

\* Goroutines and tickers the specifications can create.
MaxGor == MaxStarts + 1

Next ==
    \/ MainStart
    \/ ReconcileTick
    \/ WatcherStop
    \/ \E t \in 1..MaxGor : TickerFire(t)
    \/ \E g \in 1..MaxGor : SchedStep(g)
    \/ \E g \in 1..MaxGor : SchedSend(g)
    \/ PingRecv
    \/ MainStopAll
    \/ MainCloseStopch

\* The program: main, the Schedulers it starts, the Reconciler and the Sender's
\* end of the dispatch channel.
Spec == Init /\ [][Next]_vars

\* The goroutines of the program keep running when they can take a step.  main
\* gets to its stop branch only when a signal arrives, which need not happen.
Fairness ==
    /\ \A g \in 1..MaxGor : WF_vars(SchedStep(g)) /\ WF_vars(SchedSend(g))
    /\ \A t \in 1..MaxGor : WF_vars(TickerFire(t))
    /\ WF_vars(PingRecv)
    /\ WF_vars(WatcherStop)
    /\ WF_vars(MainStart)
    /\ WF_vars(MainCloseStopch)

FairSpec == Init /\ [][Next]_vars /\ Fairness

\* The program with further calls of Start and Stop on its Destinations.
ApiInit == InitWith(MaxStarts, MaxTicks)

ApiNext ==
    \/ Next
    \/ \E d \in 1..MaxObjs : Start(d)
    \/ \E d \in 1..MaxObjs : Stop(d)

ApiSpec == ApiInit /\ [][ApiNext]_vars

\* Lifecycle positions of a Destination's Scheduler.
Lifecycles == {"inert", "launched", "running", "stopping", "exited"}

\* The heap after Destination d has been brought to lifecycle position l by
\* calls of Start and Stop and steps of its goroutine.
Life(h, d, l) ==
    LET h1 == StartOp(h, d)
        g == Len(h1.gor)
        h2 == BeginOp(h1, g)
    IN CASE l = "inert" -> h
         [] l = "launched" -> h1
         [] l = "running" -> CheckOp(h2, g)
         [] l = "stopping" -> StopOp(CheckOp(h2, g), d)
         [] l = "exited" -> ExitOp(CheckOp(StopOp(h2, d), g), g)

RECURSIVE Lives(_, _, _)
Lives(h, ls, d) ==
    IF d > Len(h.dest) THEN h ELSE Lives(Life(h, d, ls[d]), ls, d + 1)

\* The Reconciler alone, over Registries of every table content whose
\* Destinations are at every lifecycle position.
ReconInit ==
    /\ \E tbl \in DbTables, ls \in [1..Cardinality(Ids) -> Lifecycles] :
         LET list == GetDestinations(tbl, IdOrder, TRUE)
         IN Launched(Lives(LoadHeap(list), ls, 1), list, "run", 0, MaxTicks)
    /\ WriterStart(MaxBatchSize, TRUE)
    /\ Quiet

ReconNext == ReconcileTick

ReconSpec == ReconInit /\ [][ReconNext]_vars

\* The Result Writer alone, for every batch size and both loop semantics.
WriterInit ==
    /\ Launched(LoadHeap(<<>>), <<>>, "run", 0, 0)
    /\ \E n \in 0..MaxBatchSize, p \in BOOLEAN : WriterStart(n, p)
    /\ Quiet

WriterNext ==
    \/ ReceiverEmit
    \/ CloseResultch
    \/ WriterIter
    \/ WriterExit

WriterSpec == WriterInit /\ [][WriterNext]_vars

\* The process is running: main has not returned and no goroutine has
\* panicked or called log.Fatal (either ends the process).
Crashed ==
    \/ \E g \in 1..Len(gor) : gor[g].pc = "panic"
    \/ \E r \in Receivers : rcvPc[r] \in {"panic", "fatal"}
    \/ pingPc = "fatal"

Alive == mainPc # "returned" /\ ~Crashed

\* A probe as ping sends it: the magic number, the encoded Body, the payload.
ProbeBody == [Timestamp |-> <<513, 1027, 1541, 2055>>, Site |-> <<2569, 3083>>,
              Host |-> <<3597, 4111>>]

ProbeData == <<MagicV1>> \o BodyEncode(ProbeBody).bytes \o <<7>>

\* The program from the launch of its goroutines to the return of main, with
\* replies to its own probes on the network.  The Reconciler waits for its
\* first poll tick throughout (DestInterval is 60 seconds).
ShutdownInit ==
    /\ \E tbl \in InitTables :
         LET list == GetDestinations(tbl, IdOrder, TRUE)
         IN Launched(LoadHeap(list), list, IF list = <<>> THEN "run" ELSE "start",
                     0, 0)
    /\ WriterStart(MaxBatchSize, TRUE)
    /\ TasksStart("loop", MaxReads, {EchoReply(ProbeData, RecvTime)})
    /\ CodecStart(ZeroBody, <<>>)
    /\ dbTable = EmptyTable
    /\ ExtStart(0)

ShutdownNext ==
    \/ Alive /\ MainStart
    \/ Alive /\ WatcherStop
    \/ Alive /\ \E t \in 1..MaxGor : TickerFire(t)
    \/ Alive /\ \E g \in 1..MaxGor : SchedStep(g)
    \/ Alive /\ \E g \in 1..MaxGor : SchedSend(g)
    \/ Alive /\ \E g \in 1..MaxGor : SchedSendClosed(g)
    \/ Alive /\ PingRecv
    \/ Alive /\ PingStop
    \/ Alive /\ \E r \in Receivers : RcvStep(r)
    \/ Alive /\ WriterIter
    \/ Alive /\ WriterExit
    \/ Alive /\ MainStopAll
    \/ Alive /\ MainCloseStopch
    \/ Alive /\ MainCloseResultch
    \/ Alive /\ MainCloseNamech
    \/ Alive /\ MainWaitDest
    \/ Alive /\ MainReturn

ShutdownSpec == ShutdownInit /\ [][ShutdownNext]_vars

\* While the process is running, every goroutine that can take a step takes
\* one, and so does main once it is in its shutdown procedure.
ShutdownFairness ==
    /\ \A g \in 1..MaxGor : /\ WF_vars(Alive /\ SchedStep(g))
                            /\ WF_vars(Alive /\ SchedSend(g))
                            /\ WF_vars(Alive /\ SchedSendClosed(g))
    /\ \A t \in 1..MaxGor : WF_vars(Alive /\ TickerFire(t))
    /\ \A r \in Receivers : WF_vars(Alive /\ RcvStep(r))
    /\ WF_vars(Alive /\ PingRecv)
    /\ WF_vars(Alive /\ PingStop)
    /\ WF_vars(Alive /\ WatcherStop)
    /\ WF_vars(Alive /\ WriterIter)
    /\ WF_vars(Alive /\ WriterExit)
    /\ WF_vars(Alive /\ MainStart)
    /\ WF_vars(Alive /\ MainCloseStopch)
    /\ WF_vars(Alive /\ MainCloseResultch)
    /\ WF_vars(Alive /\ MainCloseNamech)
    /\ WF_vars(Alive /\ MainWaitDest)
    /\ WF_vars(Alive /\ MainReturn)

FairShutdownSpec == ShutdownInit /\ [][ShutdownNext]_vars /\ ShutdownFairness

\* Echo data as it may arrive: every prefix of a probe, and every non-empty
\* prefix of a probe whose first byte is not the magic number.
EchoDatas ==
    {SubSeq(ProbeData, 1, n) : n \in 0..Len(ProbeData)}
        \cup {SubSeq([ProbeData EXCEPT ![1] = 0], 1, n) : n \in 1..Len(ProbeData)}

\* b times n modulo 2^64, from byte i on with the carry of the bytes below.
RECURSIVE MulBytes(_, _, _, _)
MulBytes(b, n, i, carry) ==
    IF i > Len(b) THEN <<>>
    ELSE LET cur == b[i] * n + carry
         IN <<cur % 256>> \o MulBytes(b, n, i + 1, cur \div 256)

\* How far the timestamp of an envelope lies from the time of its receipt: ms
\* whole milliseconds (four limbs) and frac nanoseconds more, after the receipt
\* when late and else before it.
RttCases ==
    {[late |-> FALSE, ms |-> <<250, 0, 0, 0>>, frac |-> 0],
     [late |-> FALSE, ms |-> <<250, 0, 0, 0>>, frac |-> 999999],
     [late |-> FALSE, ms |-> <<7, 3, 0, 0>>, frac |-> 1],
     [late |-> FALSE, ms |-> <<5, 0, 1, 0>>, frac |-> 0],
     [late |-> TRUE, ms |-> <<0, 0, 0, 0>>, frac |-> 500],
     [late |-> TRUE, ms |-> <<1, 0, 0, 0>>, frac |-> 0]}

\* The timestamp that lies as the case c says from the time now.
SentAt(c, now) ==
    LET whole == MulBytes(PutLittleEndian(c.ms), Millisecond, 1, 0)
        frac == PutLittleEndian(<<c.frac % 65536, c.frac \div 65536, 0, 0>>)
        dist == SubBytes(whole, Negate(frac), 1, 0)
        sent == IF c.late THEN SubBytes(PutLittleEndian(now), Negate(dist), 1, 0)
                ELSE SubBytes(PutLittleEndian(now), dist, 1, 0)
    IN LittleEndian(sent, 0, 4)

\* The echo reply to a probe whose envelope carries the timestamp of the case c.
RttReply(c) ==
    EchoReply(<<MagicV1>>
                  \o BodyEncode([ProbeBody EXCEPT !.Timestamp = SentAt(c, RecvTime)]).bytes
                  \o <<7>>,
              RecvTime)

\* The packets a socket may deliver: one that icmp.ParseMessage rejects, one of
\* another type than echo reply, echo replies with every echo data, an echo
\* reply to a later probe, and echo replies with envelopes of other times.
Packets ==
    {[NoPacket EXCEPT !.type = "unparsable"],
     [NoPacket EXCEPT !.parseOk = TRUE, !.type = "other", !.now = RecvTime, !.peer = Peer]}
        \cup {EchoReply(d, RecvTime) : d \in EchoDatas}
        \cup {EchoReplyFrom(ProbeData, RecvTime, EchoID, 65535)}
        \cup {RttReply(c) : c \in RttCases}

\* The Receivers and the Result Writer up to the stop signal, with any packet
\* on the network and with failures of conn.SetDeadline.
ReceiverInit ==
    /\ Launched(LoadHeap(<<>>), <<>>, "run", 0, 0)
    /\ WriterStart(0, TRUE)
    /\ TasksStart("loop", MaxReads, Packets)
    /\ CodecStart(ZeroBody, <<>>)
    /\ dbTable = EmptyTable
    /\ ExtStart(0)

ReceiverNext ==
    \/ Alive /\ \E r \in Receivers : RcvStep(r)
    \/ Alive /\ \E r \in Receivers : RcvDeadlineFail(r)
    \/ Alive /\ WriterIter
    \/ Alive /\ MainStopAll
    \/ Alive /\ MainCloseStopch

ReceiverSpec == ReceiverInit /\ [][ReceiverNext]_vars

\* Bodies handed to the codec: zero, one, the largest value and a value whose
\* bytes all differ, for each field.
Bodies ==
    [Timestamp : {<<0, 0, 0, 0>>, <<1, 0, 0, 0>>, ProbeBody.Timestamp,
                  <<65535, 65535, 65535, 65535>>},
     Site : {<<0, 0>>, ProbeBody.Site, <<65535, 65535>>},
     Host : {<<0, 0>>, ProbeBody.Host, <<65535, 65535>>}]

\* Byte slices handed to the decoders: every prefix, up to MaxBufLen bytes, of
\* three byte patterns that differ in their first byte.
Buffers ==
    {[i \in 1..n |-> IF i = 1 THEN first ELSE (37 * i) % 256] :
        n \in 0..MaxBufLen, first \in {MagicV1, 0, MagicV1 - 1}}

\* The codec alone, on every Body and every byte slice.
CodecInit ==
    /\ Launched(LoadHeap(<<>>), <<>>, "run", 0, 0)
    /\ WriterStart(0, TRUE)
    /\ TasksStart("loop", 0, {})
    /\ dbTable = EmptyTable
    /\ \E b \in Bodies, data \in Buffers : CodecStart(b, data)
    /\ ExtStart(0)

CodecNext ==
    \/ CodecEncode
    \/ CodecDecode
    \/ CodecMagic

CodecSpec == CodecInit /\ [][CodecNext]_vars

\* Rows with every combination of an active flag, a protocol below, in and
\* above the valid range, and an interval, a TTL and a payload length at and
\* just outside their bounds; a TTL of 256 does not fit the field.
FetchRows ==
    {[Active |-> a, Address |-> "a.example", Protocol |-> pr, Interval |-> iv,
      Timeout |-> 1000, TTL |-> ttl, Data |-> Payload(n, 9)] :
        a \in BOOLEAN,
        pr \in {ProtoUDP4 - 1, ProtoUDP4, ProtoUDP6, ProtoUDP6 + 1},
        iv \in {MinProbeInterval - 1, MinProbeInterval, MinProbeInterval + 1},
        ttl \in {MinProbeTTL - 1, MinProbeTTL, MaxProbeTTL, MaxProbeTTL + 1, 256},
        n \in {0, MaxPayloadSize, MaxPayloadSize + 1}}

\* Table contents for a fetch: any of these rows or none under key 1, and a
\* plain row, a row that does not scan, or none under the other keys.
FetchTables ==
    {tbl \in [Ids -> FetchRows \cup {RowA, [RowA EXCEPT !.TTL = 256], NoRow}] :
        \A id \in Ids \ {1} : tbl[id] \in {RowA, [RowA EXCEPT !.TTL = 256], NoRow}}

\* GetDestinations alone, on every such table.
FetchInit ==
    /\ Launched(LoadHeap(<<>>), <<>>, "run", 0, 0)
    /\ WriterStart(0, TRUE)
    /\ TasksStart("loop", 0, {})
    /\ CodecStart(ZeroBody, <<>>)
    /\ dbTable \in FetchTables
    /\ ExtStart(0)

FetchNext == Fetch

FetchSpec == FetchInit /\ [][FetchNext]_vars

\* Destination.Commit alone, on an empty table and on one with a row.
CommitInit ==
    /\ Launched(LoadHeap(<<>>), <<>>, "run", 0, 0)
    /\ WriterStart(0, TRUE)
    /\ TasksStart("loop", 0, {})
    /\ CodecStart(ZeroBody, <<>>)
    /\ dbTable \in {EmptyTable, [EmptyTable EXCEPT ![1] = RowA]}
    /\ ExtStart(0)

CommitNext == CommitCall

CommitSpec == CommitInit /\ [][CommitNext]_vars

\* The Sender with the dispatch events of a Registry of three Destinations (one
\* over IPv4, one over IPv6, one without an address), while the program runs
\* and after main has closed the dispatch channel.
SenderTable == [id \in Ids |-> <<RowA, RowB, RowNoAddress>>[id]]

\* The program after main has closed the dispatch channel, on the heap h: the
\* stop signal is raised, the Receivers and the Result Writer have returned,
\* the Sender has not and no dispatch event was sent.
NamechClosed(h, list) ==
    /\ dest = h.dest
    /\ tickers = h.tickers
    /\ gor = h.gor
    /\ registry = h.reg
    /\ backing = h.backing
    /\ regShared = h.shared
    /\ regCap = h.cap
    /\ mainLen = Len(list)
    /\ namech = <<>>
    /\ stopch = "closed"
    /\ mainPc = "namechClosed"
    /\ mainIdx = 1
    /\ watcherPc = "done"
    /\ ticksLeft = 0
    /\ startsLeft = 0
    /\ newDestinations = list
    /\ fetchOk = TRUE
    /\ lastPass = [removed |-> <<>>, updated |-> {}, added |-> <<>>]
    /\ resultch = <<>>
    /\ resultchClosed = TRUE
    /\ emitted = 0
    /\ writerPc = "done"
    /\ ResultBatchSize = MaxBatchSize
    /\ perIteration = TRUE
    /\ received = <<>>
    /\ resultBuf = <<>>
    /\ persisted = <<>>
    /\ commitLog = <<>>
    /\ dbBatchCommits = 0
    /\ dbFailedBatchCommits = 0
    /\ dbSingleCommits = 0
    /\ dbFailedSingleCommits = 0
    /\ namechClosed = TRUE
    /\ pingPc = "loop"
    /\ rcvPc = [r \in Receivers |-> "done"]
    /\ rcvPacket = [r \in Receivers |-> NoPacket]
    /\ rcvResult = [r \in Receivers |-> NoResult]
    /\ readsLeft = 0
    /\ network = {}
    /\ results = <<>>
    /\ parseFailed = [r \in Receivers |-> 0]

SenderInit ==
    /\ LET list == GetDestinations(SenderTable, IdOrder, TRUE)
       IN \/ /\ Launched(LoadHeap(list), list, "run", 0, 0)
             /\ WriterStart(MaxBatchSize, TRUE)
             /\ TasksStart("loop", 0, {})
          \/ NamechClosed(LoadHeap(list), list)
    /\ CodecStart(ZeroBody, <<>>)
    /\ dbTable = EmptyTable
    /\ ExtStart(MaxSends)

SenderNext ==
    \/ Alive /\ \E j \in 1..MaxObjs : Dispatch(j)
    \/ Alive /\ PingHandle
    \/ Alive /\ PingStop

SenderSpec == SenderInit /\ [][SenderNext]_vars

\* The Sender, the hosts it probes and the Receivers: the replies to the probes
\* written come back.
EchoInit ==
    /\ LET list == GetDestinations(SenderTable, IdOrder, TRUE)
       IN Launched(LoadHeap(list), list, "run", 0, 0)
    /\ WriterStart(MaxBatchSize, TRUE)
    /\ TasksStart("loop", MaxReads, {})
    /\ CodecStart(ZeroBody, <<>>)
    /\ dbTable = EmptyTable
    /\ ExtStart(MaxReads)

EchoNext ==
    \/ Alive /\ \E j \in 1..MaxObjs : Dispatch(j)
    \/ Alive /\ PingHandle
    \/ Alive /\ Reflect
    \/ Alive /\ \E r \in Receivers : RcvStep(r)

EchoSpec == EchoInit /\ [][EchoNext]_vars

\* The Sender and the Reconciler on a Registry of one Destination, each taken
\* one access to a field of the Destination at a time.
RaceInit ==
    /\ \E row \in {RowA, RowC} :
         LET list == GetDestinations([id \in Ids |-> IF id = 1 THEN row ELSE NoRow],
                                     IdOrder, TRUE)
         IN Launched(LoadHeap(list), list, "run", 0, MaxTicks)
    /\ WriterStart(MaxBatchSize, TRUE)
    /\ TasksStart("loop", 0, {})
    /\ CodecStart(ZeroBody, <<>>)
    /\ dbTable = EmptyTable
    /\ ExtStart(MaxSends)

RaceNext ==
    \/ Alive /\ \E j \in 1..MaxObjs : Dispatch(j)
    \/ Alive /\ ProbeTake
    \/ Alive /\ ProbeReadData
    \/ Alive /\ ProbeReadProtocol
    \/ Alive /\ ProbeSend
    \/ Alive /\ UpdateBegin
    \/ Alive /\ UpdateWrite

RaceSpec == RaceInit /\ [][RaceNext]_vars

\* The program with a caller that stops a running Destination and starts it
\* again.
CycleInit == InitWith(MaxStarts, MaxTicks)

CycleNext ==
    \/ Next
    \/ \E d \in 1..MaxObjs : CycleStop(d)
    \/ CycleStart

CycleSpec == CycleInit /\ [][CycleNext]_vars

\* ------------------------------------------------------------------ claims
\* A step in which the Reconciler consumes a poll tick and makes its pass.
PassStep == ticksLeft' = ticksLeft - 1

IdsOf(list) == {list[k].Id : k \in 1..Len(list)}

RegistryIds == {dest[registry[j]].Id : j \in 1..Len(registry)}

\* C1: when the fetch of a poll tick fails, the pass is skipped: the Registry is
\* left as it was, and no Destination is stopped, changed or removed.
C1_FailedFetchSkipsPass ==
    [][(PassStep /\ ~fetchOk') =>
         (registry' = registry /\ dest' = dest /\ tickers' = tickers)]_vars

LiveSchedulers(d) == {g \in 1..Len(gor) : gor[g].dest = d /\ gor[g].pc # "done"}

LiveTickers(d) == {t \in 1..Len(tickers) : tickers[t].dest = d /\ ~tickers[t].stopped}

\* C2: however two Start calls on a Destination interleave with the launch of
\* the first Scheduler, the Destination never has more than one Scheduler and
\* never more than one timer.
C2_OneSchedulerPerDestination ==
    \A d \in 1..Len(dest) :
        Cardinality(LiveSchedulers(d)) <= 1 /\ Cardinality(LiveTickers(d)) <= 1

StopRequested(d) ==
    d <= Len(dest) /\ dest[d].running /\ dest[d].stopFlag /\ stopch = "open"

LoopExited(d) == stopch = "closed" \/ (d <= Len(dest) /\ ~dest[d].running)

\* C3: once Stop has been called on a running Destination, and as long as the
\* global stop signal is not raised, the Scheduler loop eventually exits and the
\* running flag is cleared.
C3_StopEndsScheduler == \A d \in 1..MaxObjs : StopRequested(d) ~> LoopExited(d)

\* C4: after a pass with a successful fetch F the identities of the Registry are
\* exactly those of F: the Destinations whose identity is in F stay, in their
\* order, every other is removed, and the Destinations of the new identities of F
\* follow at the end, in the order of F.
C4_PassMatchesFetch ==
    [][(PassStep /\ fetchOk') =>
         LET F == newDestinations'
             keeps == SelectSeq(registry, LAMBDA r : dest[r].Id \in IdsOf(F))
             fresh == SelectSeq(F, LAMBDA nd : nd.Id \notin RegistryIds)
         IN /\ {dest'[registry'[j]].Id : j \in 1..Len(registry')} = IdsOf(F)
            /\ Len(registry') = Len(keeps) + Len(fresh)
            /\ SubSeq(registry', 1, Len(keeps)) = keeps
            /\ \A k \in 1..Len(fresh) :
                 /\ registry'[Len(keeps) + k] > Len(dest)
                 /\ dest'[registry'[Len(keeps) + k]].Id = fresh[k].Id]_vars

\* A pass removed two adjacent entries, the last one among them, and kept one.
C4_Witness ==
    /\ fetchOk
    /\ ticksLeft < MaxTicks
    /\ lastPass.removed = <<2, 3>>
    /\ registry = <<1>>

FieldNames == {"Address", "Interval", "TTL", "Timeout", "Protocol", "Active", "Data"}

\* C5: a pass keeps every Destination whose identity is still fetched as the
\* same instance, neither stops nor restarts its Scheduler, sets each field that
\* differs from the fetched record to the fetched value and leaves the other
\* fields as they were.
C5_SurvivorsUndisturbed ==
    [][PassStep =>
         \A j \in 1..Len(registry) : \A k \in 1..Len(newDestinations') :
             LET d == registry[j]
                 nd == newDestinations'[k]
             IN nd.Id = dest[d].Id =>
                  /\ d \in Range(registry')
                  /\ dest'[d].Id = dest[d].Id
                  /\ dest'[d].running = dest[d].running
                  /\ dest'[d].stopFlag = dest[d].stopFlag
                  /\ dest'[d].ticker = dest[d].ticker
                  /\ dest[d].ticker # 0 =>
                        tickers'[dest[d].ticker] = tickers[dest[d].ticker]
                  /\ Len(gor') = Len(gor)
                  /\ \A g \in 1..Len(gor) : gor[g].dest = d => gor'[g] = gor[g]
                  /\ \A f \in FieldNames :
                        dest'[d][f] = IF dest[d][f] # nd[f] THEN nd[f] ELSE dest[d][f]]_vars

\* A pass changed fields of a Destination whose Scheduler is running.
C5_Witness ==
    /\ ticksLeft < MaxTicks
    /\ \E d \in lastPass.updated :
         /\ d \in Range(registry)
         /\ dest[d].running
         /\ ~dest[d].stopFlag
         /\ \E g \in 1..Len(gor) : gor[g].dest = d /\ gor[g].pc = "select"

NeverStarted(d) == \A g \in 1..Len(gor) : gor[g].dest # d

\* C6: a Destination that a pass appended to the Registry is inert as long as
\* Start has not been called on it: it is not running, has no timer, and no
\* dispatch event of it is in the dispatch channel.
C6_AppendedIsInert ==
    \A d \in 1..Len(dest) :
        (d > mainLen /\ NeverStarted(d)) =>
            /\ ~dest[d].running
            /\ dest[d].ticker = 0
            /\ \A i \in 1..Len(namech) : namech[i] # d

\* A pass has appended a Destination that is in the Registry and not started,
\* while the Scheduler of another Destination has dispatched.
C6_Witness ==
    /\ \E d \in Range(registry) : d > mainLen /\ d \in Range(lastPass.added) /\ NeverStarted(d)
    /\ namech # <<>>

Removed(d) == d <= Len(dest) /\ d \notin Range(registry)

Dispatching(d) == \E g \in 1..Len(gor) : gor[g].dest = d /\ gor[g].pc = "send"

\* C7: a Destination that was removed from the Registry eventually stops
\* producing dispatch events, however the removal interleaves with its Scheduler.
C7_RemovedStopsDispatching ==
    \A d \in 1..MaxObjs : Removed(d) ~> [](~Dispatching(d))

Attempts(kind, ok) ==
    {i \in 1..Len(commitLog) : commitLog[i].kind = kind /\ commitLog[i].ok = ok}

\* C8: a failed batch commit of N buffered Results is followed by exactly N
\* individual commit attempts, one per buffered Result in order, whatever their
\* outcomes; the failed batch is counted once and every individual attempt is
\* counted by its own outcome.
C8_FailedBatchFallsBack ==
    /\ \A i \in 1..Len(commitLog) :
         (commitLog[i].kind = "batch" /\ ~commitLog[i].ok) =>
            LET n == Len(commitLog[i].results)
            IN /\ i + n <= Len(commitLog)
               /\ \A k \in 1..n :
                    /\ commitLog[i + k].kind = "single"
                    /\ commitLog[i + k].results = <<commitLog[i].results[k]>>
               /\ i + n < Len(commitLog) => commitLog[i + n + 1].kind = "batch"
    /\ dbFailedBatchCommits = Cardinality(Attempts("batch", FALSE))
    /\ dbBatchCommits = Cardinality(Attempts("batch", TRUE))
    /\ dbSingleCommits = Cardinality(Attempts("single", TRUE))
    /\ dbFailedSingleCommits = Cardinality(Attempts("single", FALSE))

\* A batch of two failed; the first individual commit failed, the second succeeded.
C8_Witness ==
    \E i \in 1..Len(commitLog) :
        /\ commitLog[i].kind = "batch"
        /\ ~commitLog[i].ok
        /\ Len(commitLog[i].results) = 2
        /\ i + 2 <= Len(commitLog)
        /\ ~commitLog[i + 1].ok
        /\ commitLog[i + 2].ok

\* The Results that the pointers of resultBuf refer to.
Buffered ==
    {IF perIteration THEN received[resultBuf[i]] ELSE received[Len(received)] :
        i \in 1..Len(resultBuf)}

\* The Results that some commit attempt, batch or individual, has included.
Attempted == UNION {Range(commitLog[i].results) : i \in 1..Len(commitLog)}

\* C9: with batching enabled, every Result the Writer has received is in the
\* buffer or has been included in a commit attempt, the Result that triggers a
\* batch commit included.
C9_EveryResultBufferedOrAttempted ==
    ResultBatchSize > 0 => \A k \in 1..Len(received) : received[k] \in Buffered \cup Attempted

\* C10: when the Writer has exited after the close of the result channel, the
\* channel is drained and every Result of the buffer, a partially filled one
\* included, has been included in a commit attempt.
C10_DrainedOnClose ==
    writerPc = "done" => (resultch = <<>> /\ Buffered \subseteq Attempted)

\* C11: with batching disabled every received Result has exactly one individual
\* commit attempt, made in arrival order; nothing is buffered, no batch write is
\* attempted, and the single and failed-single counters add up to the number of
\* Results received.
C11_UnbatchedCommitsEach ==
    ResultBatchSize = 0 =>
        /\ resultBuf = <<>>
        /\ Len(commitLog) = Len(received)
        /\ \A k \in 1..Len(received) :
             commitLog[k].kind = "single" /\ commitLog[k].results = <<received[k]>>
        /\ dbSingleCommits + dbFailedSingleCommits = Len(received)
        /\ dbSingleCommits = Cardinality(Attempts("single", TRUE))
        /\ dbBatchCommits = 0
        /\ dbFailedBatchCommits = 0

\* Without batching, a Result was committed and a later one failed to commit.
C11_Witness ==
    /\ ResultBatchSize = 0
    /\ Len(received) >= 2
    /\ dbSingleCommits >= 1
    /\ dbFailedSingleCommits >= 1

\* A Scheduler has sent on the closed dispatch channel, or a Receiver on the
\* closed result channel (the Result it was sending is still in its hand).
SchedulerSentOnClosed == \E g \in 1..Len(gor) : gor[g].pc = "panic"

ReceiverSentOnClosed == \E r \in Receivers : rcvPc[r] = "panic" /\ rcvResult[r] # NoResult

\* C12: no task sends on a closed channel during shutdown: no Scheduler puts a
\* dispatch event on the dispatch channel after it is closed (not with a tick
\* pending while the stop signal is ready, nor when blocked on a full channel),
\* and no Receiver puts a Result on the result channel after it is closed.
C12_NoSendOnClosedChannel == ~SchedulerSentOnClosed /\ ~ReceiverSentOnClosed

\* Every task has returned.
AllExited ==
    /\ \A g \in 1..Len(gor) : gor[g].pc = "done"
    /\ pingPc = "done"
    /\ \A r \in Receivers : rcvPc[r] = "done"
    /\ watcherPc = "done"
    /\ writerPc = "done"

\* C13: once the stop signal is raised, every task eventually exits (every
\* Scheduler loop, the Sender, both Receivers, the Reconciler and the Result
\* Writer) and the shutdown procedure of main returns.
C13_ShutdownCompletes == (stopch = "closed") ~> (AllExited /\ mainPc = "returned")

\* C14: shutdown proceeds in this order: the Schedulers are stopped, the
\* dispatch channel is closed, the Sender drains it and exits (so every queued
\* dispatch event is processed), the Receivers exit, the result channel is
\* closed, the Result Writer drains it and exits.
C14_ShutdownOrder ==
    /\ namechClosed => \A g \in 1..Len(gor) : gor[g].pc = "done"
    /\ pingPc = "done" => (namechClosed /\ namech = <<>>)
    /\ (\E r \in Receivers : rcvPc[r] = "done") => pingPc = "done"
    /\ resultchClosed => \A r \in Receivers : rcvPc[r] = "done"
    /\ writerPc = "done" => (resultchClosed /\ resultch = <<>>)

\* The echo data carries a decodable probe: the magic number and a whole Body.
Decodable(data) == Len(data) >= MagicSize + BodySize /\ data[1] = MagicV1

ZeroFields(res) == res.ReceiveSite = <<0, 0>> /\ res.ReceiveHost = <<0, 0>> /\ res.RTT = <<0, 0>>

\* C15: for every echo reply, whatever its echo data (empty, shorter than the
\* magic, shorter than magic and Body, or with another magic byte), the Receiver
\* does not fail: it goes on to emit a Result, whose site, host and RTT are
\* zero when the data carries no decodable probe.
C15_EchoDataNeverFails ==
    \A r \in Receivers :
        rcvPacket[r].type = "echoReply" =>
            /\ rcvPc[r] # "panic"
            /\ (rcvPc[r] = "send" /\ ~Decodable(rcvPacket[r].data))
                   => ZeroFields(rcvResult[r])

\* C16: when a packet fails ICMP parsing, the Receiver counts the failure,
\* emits no Result for it and goes on with the next read: the loop does not
\* fail or end.
C16_ParseFailureCounted ==
    \A r \in Receivers :
        rcvPacket[r].type = "unparsable" =>
            /\ parseFailed[r] >= 1
            /\ rcvResult[r] = NoResult
            /\ rcvPc[r] \in {"loop", "read"}

\* The 16-bit value whose low byte is at position k of the buffer.
WordAt(buf, k) == buf[k] + 256 * buf[k + 1]

\* C17: Encode yields 16 bytes that hold, little-endian, the timestamp (bytes
\* 1-8), the site (9-12) and the host (13-16), and Decode of the encoding of a
\* Body gives that Body back, without error.
C17_BodyRoundTrip ==
    /\ codecPc = "encoded" =>
         /\ ~codecOut.err
         /\ Len(codecBuf) = 16
         /\ \A k \in 1..4 : WordAt(codecBuf, 2 * k - 1) = codecBody.Timestamp[k]
         /\ \A k \in 1..2 : WordAt(codecBuf, 8 + 2 * k - 1) = codecBody.Site[k]
         /\ \A k \in 1..2 : WordAt(codecBuf, 12 + 2 * k - 1) = codecBody.Host[k]
    /\ codecPc = "roundtrip" => codecOut = [err |-> FALSE, body |-> codecBody]

C17_Witness == codecPc = "roundtrip" /\ codecBody = ProbeBody /\ codecOut.body = ProbeBody

\* C18: Body.Decode of a buffer shorter than 16 bytes, the empty one included,
\* returns an error; Magic.Decode of the empty buffer returns an error.
C18_ShortBufferIsError ==
    /\ (codecPc = "decoded" /\ Len(codecBuf) < 16) => codecOut.err
    /\ (codecPc = "magic" /\ codecBuf = <<>>) => codecOut.err

C18_Witness == codecPc = "decoded" /\ Len(codecBuf) = 15 /\ codecOut.err

\* C19: ValidateMagic returns true exactly when the buffer is not empty and its
\* first byte is 146, and false otherwise.
C19_ValidateMagicExact ==
    codecPc = "magic" => (codecOut.valid <=> (Len(codecBuf) >= 1 /\ codecBuf[1] = 146))

C19_Witness == codecPc = "magic" /\ codecOut.valid /\ Len(codecBuf) = 1

\* C20: every Destination a fetch returns comes from an active row with protocol
\* v4 or v6, with its TTL raised to 3 or lowered to 30, its interval raised to
\* 200 ms and its payload cut to its first 32 bytes where they were out of
\* bounds, and with every in-bounds value as stored.
C20_FetchedAreValidAndClamped ==
    \A k \in 1..Len(newDestinations) :
        LET d == newDestinations[k]
            row == dbTable[d.Id]
        IN /\ row # NoRow
           /\ row.Active /\ d.Active
           /\ row.Protocol \in {1, 2} /\ d.Protocol = row.Protocol
           /\ d.TTL = (IF row.TTL < 3 THEN 3 ELSE IF row.TTL > 30 THEN 30 ELSE row.TTL)
           /\ d.Interval = (IF row.Interval < 200 THEN 200 ELSE row.Interval)
           /\ d.Data = (IF Len(row.Data) > 32 THEN SubSeq(row.Data, 1, 32) ELSE row.Data)
           /\ d.Address = row.Address
           /\ d.Timeout = row.Timeout

C20_Witness ==
    \E k \in 1..Len(newDestinations) :
        LET d == newDestinations[k]
            row == dbTable[d.Id]
        IN /\ row.TTL = 31 /\ d.TTL = 30
           /\ row.Interval = 199 /\ d.Interval = 200
           /\ Len(row.Data) = 33 /\ Len(d.Data) = 32

\* The Destination is outside the bounds Commit enforces.
OutOfBounds(d) ==
    \/ d.Protocol \notin {1, 2}
    \/ d.Interval < 200
    \/ d.TTL < 3 \/ d.TTL > 30
    \/ Len(d.Data) > 32

\* C21: committing a Destination with a protocol other than v4 or v6, an
\* interval below 200 ms, a TTL outside 3..30 or a payload over 32 bytes
\* returns an error and leaves the table as it was; what a commit does store
\* is the Destination as given, never a coerced value.
C21_InvalidCommitRejected ==
    [][/\ (commitRes' # commitRes /\ OutOfBounds(commitRes'.dest))
            => (commitRes'.err /\ dbTable' = dbTable)
       /\ dbTable' # dbTable
            => /\ ~commitRes'.err
               /\ ~OutOfBounds(commitRes'.dest)
               /\ dbTable' = [dbTable EXCEPT ![NextId(dbTable)] = commitRes'.dest]]_vars

C21_Witness ==
    /\ commitRes.called
    /\ commitRes.err
    /\ commitRes.dest.TTL = 31
    /\ commitRes.dest.Protocol = 1
    /\ dbTable = [EmptyTable EXCEPT ![1] = RowA]

\* A step in which the Sender handled a dispatch event.
SenderStep == sendsLeft' # sendsLeft

FailureCounters == {"dnsTimeout", "dnsTempFail", "dnsError", "addrError", "unknownError"}

\* The counter of the class of a resolution error.
ClassCounter(e) ==
    IF e.type = "DNSError"
    THEN IF e.IsTimeout THEN "dnsTimeout"
         ELSE IF e.IsTemporary THEN "dnsTempFail" ELSE "dnsError"
    ELSE IF e.type = "AddrError" THEN "addrError" ELSE "unknownError"

\* C22: when the address of a dispatch event cannot be resolved, exactly one of
\* the five failure counters, the one of the error's class, goes up by one and
\* no other metric changes; no packet is written, the sequence number stays,
\* the event is consumed (not retried) and the Sender goes on with its loop.
C22_ResolutionFailureCounted ==
    [][(SenderStep /\ lastEvent'.in.resolve.type # "none") =>
         /\ ClassCounter(lastEvent'.in.resolve) \in FailureCounters
         /\ metrics' = [metrics EXCEPT ![ClassCounter(lastEvent'.in.resolve)] = @ + 1]
         /\ written' = written
         /\ seq' = seq
         /\ namech # <<>> /\ namech' = Tail(namech)
         /\ pingPc' = "loop"]_vars

\* A DNS error that is both a timeout and temporary has been counted, as a
\* timeout, and nothing was written.
C22_Witness ==
    /\ lastEvent.kind = "event"
    /\ lastEvent.in.resolve = [type |-> "DNSError", IsTimeout |-> TRUE, IsTemporary |-> TRUE]
    /\ metrics = [ZeroMetrics EXCEPT !.dnsTimeout = 1]
    /\ written = <<>>
    /\ sendsLeft = MaxSends - 1

\* The event the Sender handled last names a Destination with an address and
\* with the IPv4 or the IPv6 protocol.
ValidEvent(d) ==
    /\ d # 0
    /\ dest[d].Address # ""
    /\ dest[d].Protocol \in {ProtoUDP4, ProtoUDP6}

\* C23: the Sender writes a probe only for a dispatch event whose Destination
\* is not nil, has an address and has the IPv4 or IPv6 protocol; any other event
\* adds one to the empty-destination counter and to nothing else, and nothing
\* is written for it.
C23_OnlyValidEventsSent ==
    [][SenderStep =>
         /\ written' # written => ValidEvent(lastEvent'.dest)
         /\ ~ValidEvent(lastEvent'.dest) =>
              /\ metrics' = [metrics EXCEPT !.emptyDest = @ + 1]
              /\ written' = written
              /\ seq' = seq
              /\ pingPc' = "loop"]_vars

\* A probe has been written for one event, and the event of the Destination
\* without an address has then been counted as empty.
C23_Witness ==
    /\ Len(written) = 1
    /\ lastEvent.kind = "event"
    /\ lastEvent.dest # 0
    /\ dest[lastEvent.dest].Address = ""
    /\ metrics.emptyDest = 1
    /\ metrics.v4Sent + metrics.v6Sent = 1

\* The probe of the event the Sender handled last was written to a socket.
Sent(e) ==
    /\ ValidEvent(e.dest)
    /\ e.in.resolve.type = "none"
    /\ e.in.marshalOk
    /\ e.in.writeOk

\* C29: for a valid dispatch event the Sender builds the magic number, the 16
\* bytes of the Body {now, site, host} and the Destination's payload when both
\* encodes succeed, and the Destination's payload alone when either fails; with
\* either payload the probe is written when resolution, marshalling and the
\* write succeed.
C29_EnvelopeOrRawPayload ==
    [][(SenderStep /\ ValidEvent(lastEvent'.dest)) =>
         LET e == lastEvent'
             data == dest[e.dest].Data
             p == e.payload
         IN /\ IF ~e.in.magicErr /\ ~e.in.bodyErr
               THEN /\ Len(p) = 1 + 16 + Len(data)
                    /\ p[1] = MagicV1
                    /\ BodyDecode(ZeroBody, SubSeq(p, 2, 17)) =
                         [err |-> FALSE,
                          body |-> [Timestamp |-> Now, Site |-> <<SiteID, 0>>,
                                    Host |-> <<SenderID, 0>>]]
                    /\ SubSeq(p, 18, Len(p)) = data
               ELSE p = data
            /\ Sent(e) => /\ Len(written') = Len(written) + 1
                          /\ written'[Len(written')].data = p]_vars

\* The Body could not be encoded, the magic number could, and the probe went
\* out with the Destination's payload alone.
C29_Witness ==
    /\ lastEvent.kind = "event"
    /\ lastEvent.in.bodyErr
    /\ ~lastEvent.in.magicErr
    /\ Sent(lastEvent)
    /\ Len(written) = 1
    /\ written[1].data = dest[lastEvent.dest].Data

\* Every two probes written carry different sequence numbers.
DistinctSeq == \A i, j \in 1..Len(written) : i # j => written[i].seq # written[j].seq

\* C30: the sequence number of the Sender starts at 0 and never decreases; a
\* probe that is written carries the current number, which then goes up by
\* one; a discarded event, a failed resolution and a failed write leave it
\* alone; written probes carry different numbers.
C30_SeqCountsWrittenProbes ==
    /\ seq = 0
    /\ [][/\ seq' >= seq
          /\ SenderStep =>
               IF Sent(lastEvent')
               THEN /\ seq' = seq + 1
                    /\ Len(written') = Len(written) + 1
                    /\ written'[Len(written')].seq = seq
               ELSE seq' = seq /\ written' = written
          /\ ~SenderStep => seq' = seq]_vars
    /\ []DistinctSeq

\* A probe was written with number 0, and the write of the next one failed:
\* the number is 1.
C30_Witness ==
    /\ Len(written) = 1
    /\ written[1].seq = 0
    /\ lastEvent.kind = "event"
    /\ ValidEvent(lastEvent.dest)
    /\ ~lastEvent.in.writeOk
    /\ seq = 1

\* The packet p is the reply to a probe the Sender wrote with its envelope:
\* the magic number, 16 bytes of Body, the payload.
EnvelopeReply(p) ==
    /\ p.parseOk
    /\ p.type = "echoReply"
    /\ \E i \in 1..Len(written) :
         /\ written[i].data = p.data
         /\ \E d \in 1..Len(dest) : Len(p.data) = 1 + 16 + Len(dest[d].Data)
    /\ p.data[1] = MagicV1

\* C26: a Receiver that reads the echo reply to a probe the Sender built with
\* its envelope goes on to send one Result, whose site and host are SiteID and
\* SenderID; the send adds exactly that Result to the results.
C26_ReplyYieldsSenderIds ==
    [][\A r \in Receivers :
         /\ (rcvPc[r] = "read" /\ rcvPc'[r] # "read" /\ readsLeft' # readsLeft
               /\ EnvelopeReply(rcvPacket'[r])) =>
              /\ rcvPc'[r] = "send"
              /\ rcvResult'[r] # NoResult
              /\ rcvResult'[r].ReceiveSite = <<SiteID, 0>>
              /\ rcvResult'[r].ReceiveHost = <<SenderID, 0>>
              /\ results' = results
         /\ (rcvPc[r] = "send" /\ rcvPc'[r] = "loop") =>
              results' = Append(results, rcvResult[r])]_vars

\* The reply to a probe with the envelope has given one Result with the
\* Sender's identifiers.
C26_Witness ==
    /\ \E r \in Receivers : rcvPacket[r] # NoPacket /\ EnvelopeReply(rcvPacket[r])
    /\ readsLeft = MaxReads - 1
    /\ Len(results) = 1
    /\ results[1].ReceiveSite = <<SiteID, 0>>
    /\ results[1].ReceiveHost = <<SenderID, 0>>
    /\ results[1].RTT = <<250, 0>>

\* C24: no error met after startup ends the process: no goroutine is stopped by
\* log.Fatal or by a panic.
C24_SteadyStateErrorsRecoverable ==
    /\ pingPc # "fatal"
    /\ \A r \in Receivers : rcvPc[r] \notin {"fatal", "panic"}
    /\ \A g \in 1..Len(gor) : gor[g].pc # "panic"

\* The ticker the Scheduler goroutine g reads.
TickerOf(g) == dest[gor[g].dest].ticker

C27_IntervalChangeKeepsTimer ==
    [][PassStep =>
         \A j \in 1..Len(registry) : \A k \in 1..Len(newDestinations') :
             LET d == registry[j]
                 nd == newDestinations'[k]
             IN (nd.Id = dest[d].Id /\ nd.Interval # dest[d].Interval /\ dest[d].running) =>
                  /\ dest'[d].Interval = nd.Interval
                  /\ dest'[d].ticker = dest[d].ticker
                  /\ tickers'[dest[d].ticker] = tickers[dest[d].ticker]
                  /\ Len(tickers') = Len(tickers)
                  /\ gor' = gor]_vars

\* A pass has changed the interval of a Destination whose Scheduler runs: its
\* ticker still ticks at the interval it was started with.
C27_Witness ==
    /\ ticksLeft < MaxTicks
    /\ \E d \in lastPass.updated :
         /\ d \in Range(registry)
         /\ dest[d].running
         /\ ~dest[d].stopFlag
         /\ ~tickers[dest[d].ticker].stopped
         /\ tickers[dest[d].ticker].interval # dest[d].Interval

\* C28: after Stop and then Start on a running Destination a Scheduler runs for
\* it on a timer, not stopped, at the Destination's current interval.
C28_StopStartAppliesInterval ==
    cyclePc = "started" =>
        /\ ~dest[cycleDest].stopFlag
        /\ dest[cycleDest].ticker # 0
        /\ ~tickers[dest[cycleDest].ticker].stopped
        /\ tickers[dest[cycleDest].ticker].interval = dest[cycleDest].Interval
        /\ \E g \in 1..Len(gor) :
               gor[g].dest = cycleDest /\ gor[g].pc \notin {"exit", "done"}

\* The Results submitted by the commit attempts of one kind, in the order of
\* their submission, from attempt i on.
RECURSIVE Submitted(_, _)
Submitted(kind, i) ==
    IF i > Len(commitLog) THEN <<>>
    ELSE (IF commitLog[i].kind = kind THEN commitLog[i].results ELSE <<>>)
             \o Submitted(kind, i + 1)

\* The Results of the sequence s are in the order of their arrival at the
\* Result Writer (a Result is the number of its arrival).
InArrivalOrder(s) == \A j, k \in 1..Len(s) : j < k => s[j] <= s[k]

\* C31: Results are submitted in the order of their arrival: the rows of the
\* batch writes, within a batch and from one batch to the next, and the
\* individual commits, those of a fallback after a failed batch included; the
\* fallback of a failed batch submits the Results of that batch, in its order.
C31_SubmittedInArrivalOrder ==
    /\ InArrivalOrder(Submitted("batch", 1))
    /\ InArrivalOrder(Submitted("single", 1))
    /\ \A i \in 1..Len(commitLog) :
         (commitLog[i].kind = "batch" /\ ~commitLog[i].ok) =>
             \A k \in 1..Len(commitLog[i].results) :
                 i + k <= Len(commitLog) =>
                     commitLog[i + k].results = <<commitLog[i].results[k]>>

\* A batch of two different Results failed and fell back to two individual
\* commits, and a later batch was written.
C31_Witness ==
    /\ Len(commitLog) >= 4
    /\ commitLog[1].kind = "batch"
    /\ ~commitLog[1].ok
    /\ commitLog[1].results = <<1, 2>>
    /\ commitLog[2].results = <<1>>
    /\ commitLog[3].results = <<2>>
    /\ commitLog[4].kind = "batch"
    /\ commitLog[4].results = <<4, 5>>

\* C32: with batching enabled a buffer that holds batch-size Results is written
\* in the iteration that filled it: between iterations the buffer holds fewer
\* than batch-size Results, and never more than batch-size.
C32_FullBufferWrittenAtOnce ==
    ResultBatchSize > 0 =>
        /\ Len(resultBuf) <= ResultBatchSize
        /\ Len(resultBuf) # ResultBatchSize

\* C37: no Result is persisted more than once: the rows of the results table
\* are different Results.
C37_PersistedOnce ==
    \A i, j \in 1..Len(persisted) : i # j => persisted[i] # persisted[j]

\* ---------------------------------------------------------------- Receivers
\* The Receiver r reads a packet in this step.
ReadsPacket(r) == rcvPc[r] = "read" /\ rcvPc'[r] # "read" /\ readsLeft' # readsLeft

\* C33: a Receiver that reads an echo reply goes on to send one Result, and one
\* that reads a message of another type, or whose read times out or fails,
\* sends none; the send waits for room in the result channel and then adds
\* exactly that Result to the channel.
C33_OneResultPerEchoReply ==
    [][\A r \in Receivers :
         /\ ReadsPacket(r) =>
              /\ results' = results
              /\ rcvPacket'[r].type = "echoReply" =>
                   rcvPc'[r] = "send" /\ rcvResult'[r] # NoResult
              /\ rcvPacket'[r].type = "other" => rcvPc'[r] = "loop"
         /\ (rcvPc[r] = "read" /\ rcvPc'[r] # "read" /\ readsLeft' = readsLeft) =>
              rcvPc'[r] = "loop" /\ results' = results
         /\ (rcvPc[r] = "send" /\ rcvPc'[r] # "send") =>
              /\ Len(resultch) < ResultChCap
              /\ rcvPc'[r] = "loop"
              /\ results' = Append(results, rcvResult[r])
              /\ Len(resultch') = Len(resultch) + 1]_vars

\* The ICMP message type of an echo reply in the address family of the Receiver
\* r: ipv4.ICMPTypeEchoReply, ipv6.ICMPTypeEchoReply.
EchoReplyType(r) == IF r = "v4" THEN 0 ELSE 129

\* C34: the Result a Receiver is about to send carries the ID, Seq and code of
\* the echo reply it read, the address of the peer and the time of the receipt,
\* and its Type is the ICMP message type of the echo reply.
C34_ResultCarriesReplyFields ==
    \A r \in Receivers :
        rcvPc[r] = "send" =>
            /\ rcvResult[r].RequestID = rcvPacket[r].id
            /\ rcvResult[r].Sequence = rcvPacket[r].seq
            /\ rcvResult[r].Code = rcvPacket[r].code
            /\ rcvResult[r].Address = rcvPacket[r].peer
            /\ rcvResult[r].TimeStamp = rcvPacket[r].now
            /\ rcvResult[r].Type = EchoReplyType(r)

\* The low 32 bits of the whole milliseconds of the case c, counted negative
\* when the envelope is late: what a conversion to uint32 wraps them to.
Wrapped(c) ==
    LET ms == PutLittleEndian(c.ms)
    IN LittleEndian(IF c.late THEN Negate(ms) ELSE ms, 0, 2)

\* The RTT rtt is right for the case c: the whole milliseconds when they are
\* not negative and fit 32 bits, and else not their wrapped-around value.
RttRight(c, rtt) ==
    IF c.ms = <<0, 0, 0, 0>> THEN rtt = <<0, 0>>
    ELSE IF ~c.late /\ c.ms[3] = 0 /\ c.ms[4] = 0 THEN rtt = <<c.ms[1], c.ms[2]>>
    ELSE rtt # Wrapped(c)

\* C38: the Result for an echo reply with a valid envelope has as RTT the whole
\* milliseconds from the timestamp of the envelope to the receipt, and no
\* wrapped-around value when the envelope is later than the receipt or 2^32 ms
\* or more before it; the Result for an invalid envelope has RTT 0.
C38_RttIsTrueDifference ==
    \A r \in Receivers :
        rcvPc[r] = "send" =>
            /\ \A c \in RttCases :
                 rcvPacket[r] = RttReply(c) => RttRight(c, rcvResult[r].RTT)
            /\ ~Decodable(rcvPacket[r].data) => rcvResult[r].RTT = <<0, 0>>

\* ------------------------------------------------------------- the Registry
\* C36: every Destination, as loaded at start-up and after every pass of the
\* Reconciler, has one of the two protocols, an interval of at least
\* MinProbeInterval, a TTL from MinProbeTTL to MaxProbeTTL, and a payload of at
\* most MaxPayloadSize bytes.
C36_RegistryWithinBounds ==
    \A d \in 1..Len(dest) :
        /\ dest[d].Protocol \in {ProtoUDP4, ProtoUDP6}
        /\ dest[d].Interval >= MinProbeInterval
        /\ dest[d].TTL >= MinProbeTTL
        /\ dest[d].TTL <= MaxProbeTTL
        /\ Len(dest[d].Data) <= MaxPayloadSize

\* A pass has updated a Destination of the Registry from a row whose interval,
\* TTL and payload were out of bounds.
C36_Witness ==
    /\ ticksLeft < MaxTicks
    /\ \E d \in lastPass.updated :
         /\ d \in Range(registry)
         /\ dest[d].Address = RowB.Address
         /\ dest[d].Interval = MinProbeInterval
         /\ dest[d].TTL = MaxProbeTTL
         /\ Len(dest[d].Data) = MaxPayloadSize

\* ------------------------------------------------------- main's WaitGroups
\* C39: each Wait of main's shutdown returns only after every goroutine of its
\* group has returned, those launched but not yet at their wg.Add(1) included:
\* the Receivers before close(resultch), the Result Writer before
\* close(namech), the Reconciler and every Scheduler goroutine before
\* destWG.Wait() returns, the Sender before main returns.
C39_WaitCoversEveryTask ==
    /\ mainPc \in {"resultchClosed", "namechClosed", "destDone", "returned"}
         => \A r \in Receivers : rcvPc[r] = "done"
    /\ mainPc \in {"namechClosed", "destDone", "returned"} => writerPc = "done"
    /\ mainPc \in {"destDone", "returned"}
         => (watcherPc = "done" /\ \A g \in 1..Len(gor) : gor[g].pc = "done")
    /\ mainPc = "returned" => pingPc = "done"

\* --------------------------------------------- the fields of a Destination
\* The contents a Destination of the Registry takes from the table: the rows
\* of the model as GetDestinations validates them.
Versions == {Clamp(row) : row \in {RowA, RowB, RowC}}

\* The probe w went over the socket, to the address and with the payload of
\* the version v of its Destination; the payload follows the envelope, if any.
FromVersion(w, v) ==
    LET n == Len(v.Data)
    IN /\ w.address = v.Address
       /\ w.conn = IF v.Protocol = ProtoUDP6 THEN "v6" ELSE "v4"
       /\ Len(w.data) \in {n, MagicSize + BodySize + n}
       /\ SubSeq(w.data, Len(w.data) - n + 1, Len(w.data)) = v.Data

\* C35: every probe written has its address, protocol and payload from one
\* version of its Destination, also when the Reconciler updates the fields of
\* the Destination while the Sender builds the probe.
C35_ProbeFromOneVersion ==
    \A i \in 1..Len(written) : \E v \in Versions : FromVersion(written[i], v)

====
